---- MODULE Spec2Model ----
(***************************************************************************)
(* Placement-drive round uploads: identity normalisation, match-priority   *)
(* resolution, round / elimination bookkeeping and the aggregate counters  *)
(* kept in the companies, rounds, students, placements and years           *)
(* collections (src/excel_utils.py, src/student_matcher.py,                *)
(* src/firebase_operations.py, src/api.py).                                *)
(*                                                                         *)
(* Text (a Python str) is a sequence of one-character strings; the empty   *)
(* sequence stands for None, for a missing dictionary key and for ''.      *)
(* Enumerated values (statuses, match types) are TLA+ strings.             *)
(***************************************************************************)
EXTENDS Integers, Sequences, FiniteSets, TLC

(***************************************************************************)
(* Bounds of the model.                                                    *)
(***************************************************************************)
\* number of upload requests in one behaviour
MaxUploads == 3
\* round numbers a request may carry: 1..MaxRound
MaxRound == 2
\* config.py:42 reads FIRESTORE_BATCH_SIZE from the environment (default 500);
\* the model runs the configuration FIRESTORE_BATCH_SIZE=2, so that a sheet
\* of three rows spans two batches.
FIRESTORE_BATCH_SIZE == 2

(***************************************************************************)
(* Characters and Python's str methods.                                    *)
(***************************************************************************)
LowerCase == <<"a","b","c","d","e","f","g","h","i","j","k","l","m",
               "n","o","p","q","r","s","t","u","v","w","x","y","z">>
UpperCase == <<"A","B","C","D","E","F","G","H","I","J","K","L","M",
               "N","O","P","Q","R","S","T","U","V","W","X","Y","Z">>
Digits == {"0","1","2","3","4","5","6","7","8","9"}
Whitespace == {" ", "\t"}

LowerSet == {LowerCase[i] : i \in 1..26}
UpperSet == {UpperCase[i] : i \in 1..26}
UpperOf == [c \in LowerSet |-> UpperCase[CHOOSE i \in 1..26 : LowerCase[i] = c]]
LowerOf == [c \in UpperSet |-> LowerCase[CHOOSE i \in 1..26 : UpperCase[i] = c]]

IsLower(c) == c \in LowerSet
IsUpper(c) == c \in UpperSet
\* [a-zA-Z0-9]
IsAlnum(c) == IsLower(c) \/ IsUpper(c) \/ c \in Digits
\* \w of the regular expressions
IsWordChar(c) == IsAlnum(c) \/ c = "_"

ToUpper(c) == IF IsLower(c) THEN UpperOf[c] ELSE c
ToLower(c) == IF IsUpper(c) THEN LowerOf[c] ELSE c

\* str.upper(), str.lower()
Upper(s) == [i \in 1..Len(s) |-> ToUpper(s[i])]
Lower(s) == [i \in 1..Len(s) |-> ToLower(s[i])]

\* str.strip()
RECURSIVE LStrip(_)
LStrip(s) ==
    IF s # <<>> /\ Head(s) \in Whitespace THEN LStrip(Tail(s)) ELSE s
RECURSIVE RStrip(_)
RStrip(s) ==
    IF s # <<>> /\ s[Len(s)] \in Whitespace THEN RStrip(SubSeq(s, 1, Len(s) - 1)) ELSE s
Strip(s) == RStrip(LStrip(s))

\* re.sub(r'\s+', ' ', s)
RECURSIVE CollapseWhitespace(_)
CollapseWhitespace(s) ==
    IF s = <<>> THEN <<>>
    ELSE IF Head(s) \in Whitespace
         THEN <<" ">> \o CollapseWhitespace(LStrip(s))
         ELSE <<Head(s)>> \o CollapseWhitespace(Tail(s))

\* the alternatives of r'\b(mr|mrs|ms|dr|prof)\b\.?'
Titles == << <<"m","r">>, <<"m","r","s">>, <<"m","s">>, <<"d","r">>, <<"p","r","o","f">> >>

\* title t matches at position i of s between two word boundaries
TitleAt(s, i, t) ==
    /\ i + Len(t) - 1 <= Len(s)
    /\ \A k \in 1..Len(t) : s[i + k - 1] = t[k]
    /\ (i = 1 \/ ~IsWordChar(s[i - 1]))
    /\ (i + Len(t) > Len(s) \/ ~IsWordChar(s[i + Len(t)]))

\* length of the regular expression's match at position i (0: no match)
TitleMatchLen(s, i) ==
    LET hits == {k \in DOMAIN Titles : TitleAt(s, i, Titles[k])}
    IN  IF hits = {} THEN 0
        ELSE LET k == CHOOSE x \in hits : \A y \in hits : x <= y
                 j == i + Len(Titles[k])
             IN  Len(Titles[k]) + (IF j <= Len(s) /\ s[j] = "." THEN 1 ELSE 0)

\* re.sub(r'\b(mr|mrs|ms|dr|prof)\b\.?', '', s), scanning from position i
RECURSIVE RemoveTitles(_, _)
RemoveTitles(s, i) ==
    IF i > Len(s) THEN <<>>
    ELSE IF TitleMatchLen(s, i) > 0
         THEN RemoveTitles(s, i + TitleMatchLen(s, i))
         ELSE <<s[i]>> \o RemoveTitles(s, i + 1)

(***************************************************************************)
(* excel_utils.py                                                          *)
(***************************************************************************)
\* variant of normalize_roll_number: only the first character that is not
\* alphanumeric is removed
normalize_roll_number_first_only(roll_number) ==
    IF roll_number = <<>> THEN <<>>
    ELSE LET text == Strip(roll_number)
             odd == {i \in DOMAIN text : ~IsAlnum(text[i])}
             first == IF odd = {} THEN 0 ELSE CHOOSE i \in odd : \A j \in odd : i <= j
         IN  Upper([i \in 1..(Len(text) - (IF first = 0 THEN 0 ELSE 1)) |->
                       IF first = 0 \/ i < first THEN text[i] ELSE text[i + 1]])

normalize_roll_number(roll_number) ==
    IF roll_number = <<>> THEN <<>>
    ELSE Upper(SelectSeq(Strip(roll_number), IsAlnum))

normalize_email(email) ==
    IF email = <<>> THEN <<>> ELSE Strip(Lower(email))

normalize_name(name) ==
    IF name = <<>> THEN <<>>
    ELSE Strip(RemoveTitles(CollapseWhitespace(Strip(Lower(name))), 1))

is_empty_value(value) == Strip(value) = <<>>

\* f"{clean_name}{year}": the year is validated to 2000..2100, four digits, so
\* the concatenation is read back unambiguously; it is kept as a pair
generate_company_year_id(company_name, year) ==
    <<SelectSeq(company_name, IsAlnum), year>>

\* f"{company_year_id}_round_{round_number}"
generate_round_id(company_year_id, round_number) ==
    <<company_year_id, round_number>>

\* f"{round_id}_{student_id}": the key of a row inside one round's data
\* collection (the round is fixed there)
generate_row_id(student_id, round_id) == <<round_id, student_id>>

\* str.split('@')[0]
RECURSIVE BeforeAt(_)
BeforeAt(s) ==
    IF s = <<>> \/ Head(s) = "@" THEN <<>> ELSE <<Head(s)>> \o BeforeAt(Tail(s))

\* hashlib.md5(x).hexdigest()[:8]; the digest is kept symbolic (collisions of
\* the hash are not modelled)
Md5Hex8(s) == <<"md5(">> \o s \o <<")">>

generate_student_id(roll_number, name, email) ==
    IF roll_number # <<>> THEN <<"student_">> \o normalize_roll_number(roll_number)
    ELSE IF email # <<>> THEN <<"student_">> \o BeforeAt(normalize_email(email))
    ELSE IF name # <<>> THEN <<"student_">> \o Md5Hex8(normalize_name(name))
    ELSE <<"student_">> \o Md5Hex8(<<"datetime.now()">>)

(***************************************************************************)
(* Documents are functions from field names to values; a field a document  *)
(* does not hold is outside its domain.                                    *)
(***************************************************************************)
\* dict.get(key, default)
Get(doc, key, default) == IF key \in DOMAIN doc THEN doc[key] ELSE default

\* a collection (or dict) with one key set
Put(coll, key, value) == (key :> value) @@ coll

\* DocumentReference.update(data): the named top-level fields are replaced
MergeFields(doc, data) == data @@ doc

EmptyMap == [k \in {} |-> k]

\* the fields whose values are text
TextFields == {"rollNumber", "name", "email"}

\* clean_dict: of a student document's values only the text ones can be
\* empty for is_empty_value (a list, a dict, a number and a status are kept)
clean_dict(data) ==
    [k \in {f \in DOMAIN data : ~(f \in TextFields /\ is_empty_value(data[f]))} |-> data[k]]

\* None, where a student is expected
NoStudent == <<>>

(***************************************************************************)
(* A batch of writes: reads made while it is being filled see the          *)
(* committed collection only; commit applies the writes in order.          *)
(***************************************************************************)
ApplyWrite(coll, w) ==
    IF w.kind = "set" THEN Put(coll, w.key, w.data)
    ELSE Put(coll, w.key, MergeFields(coll[w.key], w.data))

RECURSIVE Commit(_, _)
Commit(coll, batch) ==
    IF batch = <<>> THEN coll ELSE Commit(ApplyWrite(coll, Head(batch)), Tail(batch))

(***************************************************************************)
(* student_matcher.py                                                      *)
(***************************************************************************)
\* the characters of the model in code point order, the order of document names
CharOrder == <<"\t", " ", "&", "-", ".",
               "0", "1", "2", "3", "4", "5", "6", "7", "8", "9", "@">>
             \o UpperCase \o <<"_">> \o LowerCase
CharRank == [c \in {CharOrder[i] : i \in DOMAIN CharOrder} |->
                CHOOSE i \in DOMAIN CharOrder : CharOrder[i] = c]

\* document name a is known to come before document name b; the place of a
\* name made of a digest is not known
RECURSIVE DocBefore(_, _)
DocBefore(a, b) ==
    IF a = <<>> THEN b # <<>>
    ELSE IF b = <<>> THEN FALSE
    ELSE IF Head(a) \notin DOMAIN CharRank \/ Head(b) \notin DOMAIN CharRank
    THEN Head(a) = Head(b) /\ Head(a) = "student_" /\ DocBefore(Tail(a), Tail(b))
    ELSE IF Head(a) = Head(b) THEN DocBefore(Tail(a), Tail(b))
    ELSE CharRank[Head(a)] < CharRank[Head(b)]

\* find_student_by_roll_number / _name / _email: where(field == value).limit(1)
\* answers with the first matching document in document-name order.  The
\* result is the set of documents that may be that first one: one document
\* where the order is known, the empty set for None.
find_student_by(students, field, value) ==
    LET hits == {id \in DOMAIN students :
                    field \in DOMAIN students[id] /\ students[id][field] = value}
    IN  {id \in hits : \A other \in hits : ~DocBefore(other, id)}

MatchResult(id, match_type, confidence) ==
    [student |-> id, match_type |-> match_type, confidence |-> confidence]

\* variant of match_student: the name is looked up before the roll number
match_student_name_first(students, excel_student) ==
    LET norm_roll == normalize_roll_number(excel_student.rollNumber)
        norm_name == normalize_name(excel_student.name)
        norm_email == normalize_email(excel_student.email)
        by_roll == IF norm_roll # <<>>
                   THEN find_student_by(students, "rollNumber", norm_roll) ELSE {}
        by_name == IF norm_name # <<>>
                   THEN find_student_by(students, "name", norm_name) ELSE {}
        by_email == IF norm_email # <<>>
                    THEN find_student_by(students, "email", norm_email) ELSE {}
    IN  IF by_name # {} THEN {MatchResult(id, "name", 100) : id \in by_name}
        ELSE IF by_roll # {} THEN {MatchResult(id, "roll_number", 100) : id \in by_roll}
        ELSE IF by_email # {} THEN {MatchResult(id, "email", 100) : id \in by_email}
        ELSE {MatchResult(NoStudent, "none", 0)}

\* the possible results of match_student
match_student(students, excel_student) ==
    LET norm_roll == normalize_roll_number(excel_student.rollNumber)
        norm_name == normalize_name(excel_student.name)
        norm_email == normalize_email(excel_student.email)
        by_roll == IF ~is_empty_value(excel_student.rollNumber) /\ norm_roll # <<>>
                   THEN find_student_by(students, "rollNumber", norm_roll) ELSE {}
        by_name == IF ~is_empty_value(excel_student.name) /\ norm_name # <<>>
                   THEN find_student_by(students, "name", norm_name) ELSE {}
        by_email == IF ~is_empty_value(excel_student.email) /\ norm_email # <<>>
                    THEN find_student_by(students, "email", norm_email) ELSE {}
    IN  IF by_roll # {} THEN {MatchResult(id, "roll_number", 100) : id \in by_roll}
        ELSE IF by_name # {} THEN {MatchResult(id, "name", 100) : id \in by_name}
        ELSE IF by_email # {} THEN {MatchResult(id, "email", 100) : id \in by_email}
        ELSE {MatchResult(NoStudent, "none", 0)}

\* merge_student_data, on the three identifier fields (the only ones read
\* from the merged dictionary afterwards)
merge_student_data(existing_student, new_data) ==
    [field \in TextFields |->
        IF is_empty_value(Get(existing_student, field, <<>>)) /\ ~is_empty_value(new_data[field])
        THEN new_data[field]
        ELSE Get(existing_student, field, <<>>)]

\* one element of matched_updates or new_students (a new student carries no
\* match_type in the source; the model keeps the 'none' of match_student)
StudentItem(students, excel_student, m) ==
    IF m.student # NoStudent
    THEN [id |-> m.student,
          data |-> merge_student_data(students[m.student], excel_student),
          match_type |-> m.match_type,
          confidence |-> m.confidence,
          excel_data |-> excel_student,
          matched |-> TRUE]
    ELSE [id |-> generate_student_id(excel_student.rollNumber, excel_student.name,
                                     excel_student.email),
          data |-> excel_student,
          match_type |-> m.match_type,
          confidence |-> m.confidence,
          excel_data |-> excel_student,
          matched |-> FALSE]

\* process_excel_students: the possible (matched_updates, new_students)
RECURSIVE process_excel_students(_, _)
process_excel_students(students, excel_students) ==
    IF excel_students = <<>> THEN {[matched_updates |-> <<>>, new_students |-> <<>>]}
    ELSE LET first == Head(excel_students)
             items == {StudentItem(students, first, m) : m \in match_student(students, first)}
         IN  {[matched_updates |-> (IF it.matched THEN <<it>> ELSE <<>>) \o rest.matched_updates,
               new_students |-> (IF it.matched THEN <<>> ELSE <<it>>) \o rest.new_students] :
                 it \in items, rest \in process_excel_students(students, Tail(excel_students))}

(***************************************************************************)
(* firebase_operations.py.  The store:                                     *)
(*   students    student id -> document                                    *)
(*   companies   company year id -> document                               *)
(*   rounds      round id -> round document                                *)
(*   data        round id -> (student id -> row document), the round's     *)
(*               'data' subcollection                                      *)
(*   placements  company year id -> (student id -> placement document)     *)
(*   years       year -> document                                          *)
(* Timestamps, roundName and rawColumns are left out.                      *)
(***************************************************************************)
\* variant of company_update_data: the status follows the upload's flag
company_update_data_follows_flag(existing_data, round_number, is_final) ==
    [currentRound |-> round_number,
     status |-> IF is_final THEN "completed" ELSE "running"]

\* create_or_update_company, the update of an existing document
company_update_data(existing_data, round_number, is_final) ==
    LET base == [currentRound |-> round_number]
        final == IF is_final
                 THEN MergeFields(base, [finalRound |-> round_number, status |-> "completed"])
                 ELSE base
    IN  IF round_number > Get(existing_data, "totalRounds", 0)
        THEN MergeFields(final, [totalRounds |-> round_number])
        ELSE final

\* create_or_update_company, the document of a new company (finalRound None is 0)
new_company_data(company_name, year, round_number, is_final) ==
    [companyName |-> company_name,
     year |-> year,
     status |-> IF is_final THEN "completed" ELSE "running",
     currentRound |-> round_number,
     finalRound |-> IF is_final THEN round_number ELSE 0,
     totalRounds |-> round_number,
     totalPlaced |-> 0,
     totalApplied |-> 0]

create_or_update_company(companies, company_name, year, round_number, is_final) ==
    LET company_year_id == generate_company_year_id(company_name, year)
    IN  IF company_year_id \in DOMAIN companies
        THEN Put(companies, company_year_id,
                 MergeFields(companies[company_year_id],
                             company_update_data(companies[company_year_id],
                                                 round_number, is_final)))
        ELSE Put(companies, company_year_id,
                 new_company_data(company_name, year, round_number, is_final))

\* get_previous_round_students: the student ids of the previous round's rows
get_previous_round_students(data, company_year_id, round_number) ==
    IF round_number <= 1 THEN {}
    ELSE LET previous_round_id == generate_round_id(company_year_id, round_number - 1)
         IN  IF previous_round_id \in DOMAIN data
             THEN {data[previous_round_id][k].studentId : k \in DOMAIN data[previous_round_id]}
             ELSE {}

\* variant of eliminated_update_data: finalSelection is left as it was
eliminated_update_data_status_only(existing_data, company_year_id) ==
    LET company_status == Get(existing_data, "companyStatus", EmptyMap)
    IN  [companyStatus |->
            Put(company_status, company_year_id,
                MergeFields(company_status[company_year_id],
                            [status |-> "not_selected"]))]

\* mark_eliminated_students: the update of one student (lines 268-280)
eliminated_update_data(existing_data, company_year_id) ==
    LET company_status == Get(existing_data, "companyStatus", EmptyMap)
    IN  [companyStatus |->
            Put(company_status, company_year_id,
                MergeFields(company_status[company_year_id],
                            [status |-> "not_selected", finalSelection |-> "False"]))]

\* mark_eliminated_students: the loop over the eliminated ids, with its batch
RECURSIVE mark_eliminated_loop(_, _, _, _)
mark_eliminated_loop(students, batch, eliminated_student_ids, company_year_id) ==
    IF eliminated_student_ids = <<>>
    THEN (IF Len(batch) > 0 THEN Commit(students, batch) ELSE students)
    ELSE LET student_id == Head(eliminated_student_ids)
             rest == Tail(eliminated_student_ids)
         IN  IF student_id \notin DOMAIN students
             THEN mark_eliminated_loop(students, batch, rest, company_year_id)
             ELSE IF company_year_id \notin DOMAIN Get(students[student_id], "companyStatus", EmptyMap)
             THEN mark_eliminated_loop(students, batch, rest, company_year_id)
             ELSE LET b2 == Append(batch,
                                   [kind |-> "update", key |-> student_id,
                                    data |-> eliminated_update_data(students[student_id],
                                                                    company_year_id)])
                  IN  IF Len(b2) >= FIRESTORE_BATCH_SIZE
                      THEN mark_eliminated_loop(Commit(students, b2), <<>>, rest, company_year_id)
                      ELSE mark_eliminated_loop(students, b2, rest, company_year_id)

mark_eliminated_students(students, eliminated_student_ids, company_year_id) ==
    IF eliminated_student_ids = <<>> THEN students
    ELSE mark_eliminated_loop(students, <<>>, eliminated_student_ids, company_year_id)

\* _add_round_data_batch: one row document
row_data(student, is_final) ==
    [rowData |-> student.excel_data,
     studentId |-> student.id,
     status |-> IF is_final THEN "qualified" ELSE "pending"]

\* _add_round_data_batch: the loop over the students, with its batch; rows is
\* the round's data collection, keyed by the student id of generate_row_id
RECURSIVE add_round_data_loop(_, _, _, _)
add_round_data_loop(rows, batch, students_data, is_final) ==
    IF students_data = <<>>
    THEN (IF Len(batch) > 0 THEN Commit(rows, batch) ELSE rows)
    ELSE LET student == Head(students_data)
             b2 == Append(batch, [kind |-> "set", key |-> student.id,
                                  data |-> row_data(student, is_final)])
         IN  IF Len(b2) >= FIRESTORE_BATCH_SIZE
             THEN add_round_data_loop(Commit(rows, b2), <<>>, Tail(students_data), is_final)
             ELSE add_round_data_loop(rows, b2, Tail(students_data), is_final)

\* add_round: the round document
round_data(round_number, is_final, students_data) ==
    [roundNumber |-> round_number,
     studentCount |-> Len(students_data),
     isFinalRound |-> is_final]

\* add_placements: the loop over the students, with its batch
RECURSIVE add_placements_loop(_, _, _)
add_placements_loop(placed, batch, students_data) ==
    IF students_data = <<>>
    THEN (IF Len(batch) > 0 THEN Commit(placed, batch) ELSE placed)
    ELSE LET student == Head(students_data)
             b2 == Append(batch, [kind |-> "set", key |-> student.id,
                                  data |-> [rowData |-> student.excel_data]])
         IN  IF Len(b2) >= FIRESTORE_BATCH_SIZE
             THEN add_placements_loop(Commit(placed, b2), <<>>, Tail(students_data))
             ELSE add_placements_loop(placed, b2, Tail(students_data))

\* normalize_roll_number / normalize_name / normalize_email, by field
normalize_field(field, value) ==
    IF field = "rollNumber" THEN normalize_roll_number(value)
    ELSE IF field = "name" THEN normalize_name(value)
    ELSE normalize_email(value)

\* update_students, lines 464-473: the identifier fields to fill in.  "not x"
\* of a stored text is x = ''
backfill_fields(existing_data, data) ==
    [field \in {f \in TextFields :
                  /\ (f \notin DOMAIN existing_data \/ existing_data[f] = <<>>)
                  /\ data[f] # <<>>}
        |-> normalize_field(field, data[field])]

\* update_students, lines 477-482 and 513-518: the entry of the drive
company_status_entry(year, round_number, is_final) ==
    [status |-> IF is_final THEN "selected" ELSE "in_process",
     roundReached |-> round_number,
     finalSelection |-> IF is_final THEN "True" ELSE "None",
     year |-> year]

\* variant of placement_fields: currentStatus follows the upload's flag
placement_fields_follows_flag(existing_data, company_name, is_final) ==
    IF is_final
    THEN [selectedCompanies |-> Append(Get(existing_data, "selectedCompanies", <<>>),
                                       company_name),
          currentStatus |-> "placed",
          totalOffers |-> Get(existing_data, "totalOffers", 0) + 1]
    ELSE [currentStatus |-> "not_placed"]

\* update_students, lines 486-498: the placement fields of an existing student
placement_fields(existing_data, company_name, is_final) ==
    IF is_final
    THEN LET selected_companies == Get(existing_data, "selectedCompanies", <<>>)
         IN  [selectedCompanies |->
                 IF \E i \in DOMAIN selected_companies : selected_companies[i] = company_name
                 THEN selected_companies
                 ELSE Append(selected_companies, company_name),
              currentStatus |-> "placed",
              totalOffers |-> Get(existing_data, "totalOffers", 0) + 1]
    ELSE EmptyMap

\* variant of student_update_data: the identifiers of the row are written as
\* the row has them, whatever the document holds
student_update_data_writes_row(existing_data, student, company_year_id, company_name, year, round_number, is_final) ==
    MergeFields(
        MergeFields([field \in {f \in TextFields : student.excel_data[f] # <<>>}
                        |-> student.excel_data[field]],
                    [companyStatus |->
                        Put(Get(existing_data, "companyStatus", EmptyMap), company_year_id,
                            company_status_entry(year, round_number, is_final))]),
        placement_fields(existing_data, company_name, is_final))

\* update_students, lines 454-502: update_data of an existing student
student_update_data(existing_data, student, company_year_id, company_name, year, round_number, is_final) ==
    MergeFields(
        MergeFields(backfill_fields(existing_data, student.data),
                    [companyStatus |->
                        Put(Get(existing_data, "companyStatus", EmptyMap), company_year_id,
                            company_status_entry(year, round_number, is_final))]),
        placement_fields(existing_data, company_name, is_final))

\* update_students, lines 504-527: the document of a new student
new_student_data(student, company_year_id, company_name, year, round_number, is_final) ==
    clean_dict(
        [rollNumber |-> IF student.data.rollNumber # <<>>
                        THEN normalize_roll_number(student.data.rollNumber) ELSE <<>>,
         name |-> IF student.data.name # <<>> THEN normalize_name(student.data.name) ELSE <<>>,
         email |-> IF student.data.email # <<>>
                   THEN normalize_email(student.data.email) ELSE <<>>,
         companyStatus |-> Put(EmptyMap, company_year_id,
                               company_status_entry(year, round_number, is_final)),
         selectedCompanies |-> IF is_final THEN <<company_name>> ELSE <<>>,
         currentStatus |-> IF is_final THEN "placed" ELSE "not_placed",
         totalOffers |-> IF is_final THEN 1 ELSE 0])

\* update_students: the write queued for one student
student_write(students, student, company_year_id, company_name, year, round_number, is_final) ==
    IF student.id \in DOMAIN students
    THEN [kind |-> "update", key |-> student.id,
          data |-> student_update_data(students[student.id], student, company_year_id,
                                       company_name, year, round_number, is_final)]
    ELSE [kind |-> "set", key |-> student.id,
          data |-> new_student_data(student, company_year_id, company_name, year,
                                    round_number, is_final)]

\* update_students: the loop over the students, with its batch
RECURSIVE update_students_loop(_, _, _, _, _, _, _, _)
update_students_loop(students, batch, students_data, company_year_id, company_name, year, round_number, is_final) ==
    IF students_data = <<>>
    THEN (IF Len(batch) > 0 THEN Commit(students, batch) ELSE students)
    ELSE LET b2 == Append(batch, student_write(students, Head(students_data),
                                               company_year_id, company_name, year,
                                               round_number, is_final))
         IN  IF Len(b2) >= FIRESTORE_BATCH_SIZE
             THEN update_students_loop(Commit(students, b2), <<>>, Tail(students_data),
                                       company_year_id, company_name, year, round_number,
                                       is_final)
             ELSE update_students_loop(students, b2, Tail(students_data), company_year_id,
                                       company_name, year, round_number, is_final)

update_students(students, students_data, company_year_id, company_name, year, round_number, is_final) ==
    update_students_loop(students, <<>>, students_data, company_year_id, company_name,
                         year, round_number, is_final)

\* variant of company_statistics_data: totalApplied is set by every round
company_statistics_data_every_round(existing_data, total_applied, total_placed, round_number) ==
    MergeFields(
        [totalApplied |-> total_applied],
        IF total_placed > 0
        THEN [totalPlaced |-> Get(existing_data, "totalPlaced", 0) + total_placed]
        ELSE EmptyMap)

\* variant of company_statistics_data: totalPlaced grows by the rows of the
\* upload, final or not
company_statistics_data_counts_rows(existing_data, total_applied, total_placed, round_number) ==
    MergeFields(
        IF round_number = 1 THEN [totalApplied |-> total_applied] ELSE EmptyMap,
        [totalPlaced |-> Get(existing_data, "totalPlaced", 0) + total_applied])

\* update_company_statistics: update_data; Increment(n) is applied to the
\* stored value by the store
company_statistics_data(existing_data, total_applied, total_placed, round_number) ==
    MergeFields(
        IF round_number = 1 THEN [totalApplied |-> total_applied] ELSE EmptyMap,
        IF total_placed > 0
        THEN [totalPlaced |-> Get(existing_data, "totalPlaced", 0) + total_placed]
        ELSE EmptyMap)

update_company_statistics(companies, company_year_id, total_applied, total_placed, round_number) ==
    Put(companies, company_year_id,
        MergeFields(companies[company_year_id],
                    company_statistics_data(companies[company_year_id], total_applied,
                                            total_placed, round_number)))

\* variant of company_wise_after: the status of an existing entry follows the
\* flag of the upload, 'running' where the upload is not final
company_wise_after_follows_flag(company_wise, company_year_id, company_name, placed_count, is_final) ==
    Put(company_wise, company_year_id,
        [companyName |-> IF company_year_id \in DOMAIN company_wise
                         THEN company_wise[company_year_id].companyName
                         ELSE company_name,
         placed |-> IF company_year_id \in DOMAIN company_wise
                    THEN company_wise[company_year_id].placed + placed_count
                    ELSE placed_count,
         status |-> IF is_final THEN "completed" ELSE "running"])

\* update_yearly_analytics, lines 616-633: the companyWise map after the call
company_wise_after(company_wise, company_year_id, company_name, placed_count, is_final) ==
    IF company_year_id \in DOMAIN company_wise
    THEN Put(company_wise, company_year_id,
             MergeFields(company_wise[company_year_id],
                 MergeFields([placed |-> company_wise[company_year_id].placed + placed_count],
                             IF is_final THEN [status |-> "completed"] ELSE EmptyMap)))
    ELSE Put(company_wise, company_year_id,
             [companyName |-> company_name,
              placed |-> placed_count,
              status |-> IF is_final THEN "completed" ELSE "running"])

\* variant of company_counter_increments: a final upload of a known company
\* counts as completed without leaving running
company_counter_increments_no_decrement(previous_status, is_new_company, is_final) ==
    IF is_new_company
    THEN IF is_final
         THEN [totalCompanies |-> 1, completedCompanies |-> 1]
         ELSE [totalCompanies |-> 1, runningCompanies |-> 1]
    ELSE IF is_final /\ previous_status = "running"
         THEN [completedCompanies |-> 1]
         ELSE EmptyMap

\* variant of company_counter_increments: every final upload of a known
\* company is a transition, whatever its recorded status
company_counter_increments_flag_only(previous_status, is_new_company, is_final) ==
    IF is_new_company
    THEN IF is_final
         THEN [totalCompanies |-> 1, completedCompanies |-> 1]
         ELSE [totalCompanies |-> 1, runningCompanies |-> 1]
    ELSE IF is_final
         THEN [runningCompanies |-> -1, completedCompanies |-> 1]
         ELSE EmptyMap

\* update_yearly_analytics, lines 641-655: the increments of the three company
\* counters
company_counter_increments(previous_status, is_new_company, is_final) ==
    IF is_new_company
    THEN IF is_final
         THEN [totalCompanies |-> 1, completedCompanies |-> 1]
         ELSE [totalCompanies |-> 1, runningCompanies |-> 1]
    ELSE IF is_final /\ previous_status = "running"
         THEN [runningCompanies |-> -1, completedCompanies |-> 1]
         ELSE EmptyMap

\* set(update_data, merge=True): companyWise is merged key by key, an
\* Increment adds to the stored number, 0 where the field is missing
update_yearly_analytics(years, year, company_year_id, company_name, placed_count, is_new_company, is_final) ==
    LET year_data == IF year \in DOMAIN years THEN years[year] ELSE EmptyMap
        company_wise == Get(year_data, "companyWise", EmptyMap)
        previous_status == IF company_year_id \in DOMAIN company_wise
                           THEN company_wise[company_year_id].status ELSE "None"
        increments == MergeFields([totalPlaced |-> placed_count],
                                  company_counter_increments(previous_status,
                                                             is_new_company, is_final))
        written == company_wise_after(company_wise, company_year_id, company_name,
                                      placed_count, is_final)
    IN  Put(years, year,
            MergeFields(year_data,
                MergeFields([companyWise |-> MergeFields(company_wise, written)],
                            [f \in DOMAIN increments |->
                                Get(year_data, f, 0) + increments[f]])))

\* a set of ids as a list, in the order the store streams them
RECURSIVE SetToSeq(_)
SetToSeq(S) ==
    IF S = {} THEN <<>>
    ELSE LET x == CHOOSE y \in S : TRUE IN <<x>> \o SetToSeq(S \ {x})

\* the ids of a list of students
StudentIds(students_data) == {students_data[i].id : i \in DOMAIN students_data}

\* variant of is_new_company: a company counts as new only in a new year
is_new_company_by_year(years, year, company_year_id) ==
    year \notin DOMAIN years

\* process_round_upload, lines 687-694
is_new_company(years, year, company_year_id) ==
    IF year \in DOMAIN years
    THEN company_year_id \notin DOMAIN Get(years[year], "companyWise", EmptyMap)
    ELSE TRUE

\* process_round_upload, lines 705-707
eliminated_students(data, company_year_id, round_number, excel_students) ==
    get_previous_round_students(data, company_year_id, round_number)
        \ StudentIds(excel_students)

\* add_round, on the rounds collection
add_round(rounds, company_year_id, round_number, is_final, students_data) ==
    Put(rounds, generate_round_id(company_year_id, round_number),
        round_data(round_number, is_final, students_data))

\* _add_round_data_batch, on the data subcollections
add_round_data_batch(data, company_year_id, round_id, students_data, is_final) ==
    Put(data, round_id,
        add_round_data_loop(Get(data, round_id, EmptyMap), <<>>, students_data, is_final))

\* add_placements, on the placements subcollections
add_placements(placements, company_year_id, students_data) ==
    Put(placements, company_year_id,
        add_placements_loop(Get(placements, company_year_id, EmptyMap), <<>>,
                            students_data))

\* process_round_upload: the store after the call
process_round_upload(db, company_name, year, round_number, is_final, excel_students) ==
    LET company_year_id == generate_company_year_id(company_name, year)
        \* 1. create or update company
        companies1 == create_or_update_company(db.companies, company_name, year,
                                               round_number, is_final)
        new_company == is_new_company(db.years, year, company_year_id)
        \* 2. add round with student data
        round_id == generate_round_id(company_year_id, round_number)
        rounds1 == add_round(db.rounds, company_year_id, round_number, is_final,
                             excel_students)
        data1 == add_round_data_batch(db.data, company_year_id, round_id, excel_students,
                                      is_final)
        \* 2.5. mark eliminated students from previous round
        eliminated == IF round_number > 1
                      THEN eliminated_students(data1, company_year_id, round_number,
                                               excel_students)
                      ELSE {}
        students1 == mark_eliminated_students(db.students, SetToSeq(eliminated),
                                              company_year_id)
        \* 3. add placements if final round
        placements1 == IF is_final
                       THEN add_placements(db.placements, company_year_id, excel_students)
                       ELSE db.placements
        placed_count == IF is_final THEN Len(excel_students) ELSE 0
        \* 4. update student documents
        students2 == update_students(students1, excel_students, company_year_id,
                                     company_name, year, round_number, is_final)
        \* 5. update company statistics
        companies2 == update_company_statistics(companies1, company_year_id,
                                                Len(excel_students), placed_count,
                                                round_number)
        \* 6. update yearly analytics
        years1 == update_yearly_analytics(db.years, year, company_year_id, company_name,
                                          placed_count, new_company, is_final)
    IN  [students |-> students2, companies |-> companies2, rounds |-> rounds1,
         data |-> data1, placements |-> placements1, years |-> years1]

(***************************************************************************)
(* The requests of the model.                                              *)
(***************************************************************************)
Txt_MrAl == <<"M", "r", ".", " ", "A", "l">>
Txt_Cy == <<"C", "y">>
Txt_al == <<"a", "l">>
Txt_Bo == <<"B", "o">>
Txt_bX == <<"b", "@", "X">>
Txt_A1 == <<"A", "-", "1">>
Txt_a1 == <<"a", "1">>
Txt_7 == <<"7">>

Row(roll_number, name, email) ==
    [rollNumber |-> roll_number, name |-> name, email |-> email]

\* rows as extract_student_data builds them: every value stripped and not
\* empty, a missing key (the empty text) where the cell is empty
Row1 == Row(<<>>, Txt_MrAl, Txt_bX)
Row2 == Row(Txt_A1, <<>>, <<>>)
Row3 == Row(Txt_a1, Txt_Bo, <<>>)
RowX == Row(Txt_7, Txt_al, <<>>)
RowY == Row(Txt_7, Txt_Cy, <<>>)

Rows == {Row1, Row2, Row3, RowX, RowY}

\* the sheets a request may carry
SheetOne == <<Row1, Row2, Row3>>
SheetTwo == <<RowX, RowY>>
Sheets == {SheetOne, SheetTwo}

Companies == { <<"A", "c">>, <<"B", " ", "&">> }
Years == {2025}

(***************************************************************************)
(* State.                                                                  *)
(***************************************************************************)
VARIABLES
    students,     \* the students collection
    companies,    \* the companies collection
    rounds,       \* the round documents
    data,         \* the rows of each round
    placements,   \* the placements of each company
    years,        \* the years collection
    upload,       \* the last request, what its rows resolved to (in the order of
                  \* matched_updates + new_students), its response
    transitions,  \* history: per drive, how often an upload for it decremented
                  \* runningCompanies / incremented completedCompanies
    nUploads,     \* number of requests served
    request,      \* the last HTTP request as it was sent, and its status code
    run,          \* the upload being served, write by write: where
                  \* process_round_upload stands, its batch, what it has queued
                  \* and committed
    normalized,   \* a roll number text and what normalize_roll_number made of it
    suspended     \* a second request in progress that is not running now: its
                  \* run and request, and how often the two have taken turns

vars == <<students, companies, rounds, data, placements, years, upload, transitions,
          nUploads, request, run, normalized, suspended>>

Store == [students |-> students, companies |-> companies, rounds |-> rounds,
          data |-> data, placements |-> placements, years |-> years]

NoUpload ==
    [company |-> <<>>, year |-> 0, roundNumber |-> 0, isFinal |-> FALSE, rows |-> <<>>,
     companyYearId |-> <<>>, ids |-> <<>>, resolved |-> <<>>,
     totalStudents |-> 0, matchedStudents |-> 0, newStudents |-> 0, placedStudents |-> 0]

\* no request yet
NoRequest ==
    [company |-> <<>>, year |-> <<>>, roundNumber |-> <<>>, isFinal |-> <<>>,
     sheet |-> <<>>, status |-> 0, error |-> "", failing |-> {}]

\* no upload in progress
NoRun ==
    [pc |-> "idle", outcome |-> "none", failed_in |-> "none",
     company |-> <<>>, year |-> 0, round_number |-> 0, is_final |-> FALSE,
     matched_updates |-> <<>>, new_students |-> <<>>, new_company |-> FALSE,
     todo |-> <<>>, batch |-> <<>>, queued |-> <<>>, committed |-> <<>>, ended |-> {},
     year_data |-> EmptyMap,
     before |-> [students |-> EmptyMap, companies |-> EmptyMap, rounds |-> EmptyMap,
                 data |-> EmptyMap, placements |-> EmptyMap, years |-> EmptyMap]]

\* normalize_roll_number not called yet
NotNormalized(text) == [input |-> text, once |-> <<>>, twice |-> <<>>, calls |-> 0]

InitStore ==
    /\ students = EmptyMap
    /\ companies = EmptyMap
    /\ rounds = EmptyMap
    /\ data = EmptyMap
    /\ placements = EmptyMap
    /\ years = EmptyMap
    /\ upload = NoUpload
    /\ transitions = EmptyMap
    /\ nUploads = 0
    /\ request = NoRequest
    /\ run = NoRun
    /\ suspended = [run |-> NoRun, request |-> NoRequest, switches |-> 0]

Init == InitStore /\ normalized = NotNormalized(<<>>)

\* a counter of a year document, 0 where the field is missing
Counter(year_data, field) == Get(year_data, field, 0)

\* the history of the drive after an upload took the year document from
\* before to after
TransitionsAfter(company_year_id, before, after) ==
    LET old == Get(transitions, company_year_id, [runningDecremented |-> 0,
                                                  completedIncremented |-> 0])
    IN  Put(transitions, company_year_id,
            [runningDecremented |-> old.runningDecremented +
                (IF Counter(after, "runningCompanies") < Counter(before, "runningCompanies")
                 THEN 1 ELSE 0),
             completedIncremented |-> old.completedIncremented +
                (IF Counter(after, "completedCompanies") > Counter(before, "completedCompanies")
                 THEN 1 ELSE 0)])

\* upload_round (api.py) with a round number given: match the rows, then
\* process_round_upload on matched_updates + new_students
UploadRound(company, year, round_number, is_final, sheet) ==
    /\ nUploads < MaxUploads
    /\ \E matching \in process_excel_students(students, sheet) :
       \E after \in {process_round_upload(Store, company, year, round_number, is_final,
                           matching.matched_updates \o matching.new_students)} :
         LET all_students == matching.matched_updates \o matching.new_students
             company_year_id == generate_company_year_id(company, year)
         IN  /\ students' = after.students
             /\ companies' = after.companies
             /\ rounds' = after.rounds
             /\ data' = after.data
             /\ placements' = after.placements
             /\ years' = after.years
             /\ upload' = [company |-> company, year |-> year,
                           roundNumber |-> round_number, isFinal |-> is_final,
                           rows |-> sheet,
                           companyYearId |-> company_year_id,
                           ids |-> [i \in DOMAIN all_students |-> all_students[i].id],
                           resolved |-> [i \in DOMAIN all_students |->
                                           [id |-> all_students[i].id,
                                            row |-> all_students[i].excel_data,
                                            match_type |-> all_students[i].match_type]],
                           totalStudents |-> Len(all_students),
                           matchedStudents |-> Len(matching.matched_updates),
                           newStudents |-> Len(matching.new_students),
                           placedStudents |-> IF is_final THEN Len(all_students) ELSE 0]
             /\ transitions' = TransitionsAfter(company_year_id,
                                                Get(years, year, EmptyMap),
                                                after.years[year])
             /\ nUploads' = nUploads + 1

Next ==
    \E company \in Companies, year \in Years, round_number \in 1..MaxRound,
       is_final \in BOOLEAN, sheet \in Sheets :
        UploadRound(company, year, round_number, is_final, sheet)
            /\ UNCHANGED <<request, run, normalized, suspended>>

Spec == Init /\ [][Next]_vars

(***************************************************************************)
(* The request handler with its validation: upload_round of api.py on the  *)
(* form fields as they are sent, and the spreadsheet as it is read.  The   *)
(* file itself is present and has an allowed extension.                    *)
(***************************************************************************)
DigitOrder == <<"0", "1", "2", "3", "4", "5", "6", "7", "8", "9">>
DigitValue == [c \in Digits |-> (CHOOSE i \in DOMAIN DigitOrder : DigitOrder[i] = c) - 1]

\* the digits and underscores of an integer literal: digits, with single
\* underscores between them
IsIntLiteral(body) ==
    /\ body # <<>>
    /\ \A i \in DOMAIN body : body[i] \in Digits \/ body[i] = "_"
    /\ body[1] \in Digits
    /\ body[Len(body)] \in Digits
    /\ \A i \in 1..(Len(body) - 1) : ~(body[i] = "_" /\ body[i + 1] = "_")

RECURSIVE DigitsValue(_)
DigitsValue(digits) ==
    IF digits = <<>> THEN 0
    ELSE 10 * DigitsValue(SubSeq(digits, 1, Len(digits) - 1)) + DigitValue[digits[Len(digits)]]

\* int(text): ok is FALSE where int raises ValueError
python_int(text) ==
    LET stripped == Strip(text)
        signed == stripped # <<>> /\ Head(stripped) \in {"+", "-"}
        body == IF signed THEN Tail(stripped) ELSE stripped
        magnitude == DigitsValue(SelectSeq(body, LAMBDA c : c \in Digits))
    IN  IF IsIntLiteral(body)
        THEN [ok |-> TRUE,
              value |-> IF signed /\ Head(stripped) = "-" THEN 0 - magnitude ELSE magnitude]
        ELSE [ok |-> FALSE, value |-> 0]

\* form_error with the year range opened to 1999
form_error_year_from_1999(company_field, year_field, round_number_field) ==
    LET company == Strip(company_field)
        year_str == Strip(year_field)
        round_number_str == Strip(round_number_field)
    IN  IF company = <<>> THEN "Company name is required."
        ELSE IF year_str = <<>> THEN "Year is required."
        ELSE IF ~python_int(year_str).ok THEN "Year must be a valid integer."
        ELSE IF ~(1999 <= python_int(year_str).value /\ python_int(year_str).value <= 2100)
        THEN "Year must be between 2000 and 2100."
        ELSE IF round_number_str # <<>> /\ ~python_int(round_number_str).ok
        THEN "Round number must be a valid integer."
        ELSE IF round_number_str # <<>> /\ python_int(round_number_str).value < 1
        THEN "Round number must be >= 1."
        ELSE ""

\* upload_round, lines 181-224: the error of the form fields, "" where they
\* are accepted
form_error(company_field, year_field, round_number_field) ==
    LET company == Strip(company_field)
        year_str == Strip(year_field)
        round_number_str == Strip(round_number_field)
    IN  IF company = <<>> THEN "Company name is required."
        ELSE IF year_str = <<>> THEN "Year is required."
        ELSE IF ~python_int(year_str).ok THEN "Year must be a valid integer."
        ELSE IF ~(2000 <= python_int(year_str).value /\ python_int(year_str).value <= 2100)
        THEN "Year must be between 2000 and 2100."
        ELSE IF round_number_str # <<>> /\ ~python_int(round_number_str).ok
        THEN "Round number must be a valid integer."
        ELSE IF round_number_str # <<>> /\ python_int(round_number_str).value < 1
        THEN "Round number must be >= 1."
        ELSE ""

\* upload_round, lines 227-228
parse_is_final(is_final_field) ==
    Lower(Strip(is_final_field)) \in {<<"t", "r", "u", "e">>, <<"1">>, <<"y", "e", "s">>}

\* extract_student_data: one row of the sheet, its cells as texts; a key is
\* there only where the cell is not empty
extract_student(row) ==
    [field \in TextFields |->
        IF is_empty_value(row[field]) THEN <<>> ELSE Strip(row[field])]

\* extract_student_data: the rows with at least one identifier
RECURSIVE extract_student_data(_)
extract_student_data(sheet) ==
    IF sheet = <<>> THEN <<>>
    ELSE LET student == extract_student(Head(sheet))
         IN  (IF \E field \in TextFields : student[field] # <<>> THEN <<student>> ELSE <<>>)
                 \o extract_student_data(Tail(sheet))

\* upload_round, lines 265-275, with get_company: the round number of a
\* request that carries none
auto_round_number(company_docs, company_year_id) ==
    IF company_year_id \in DOMAIN company_docs
    THEN Get(company_docs[company_year_id], "currentRound", 0) + 1
    ELSE 1

\* the form fields and spreadsheets of the model
Txt_Ac == <<"A", "c">>
Txt_2025 == <<"2", "0", "2", "5">>
CompanyFields == {<<" ">>, Txt_Ac}
YearFields == {<<>>, Txt_2025, <<"1", "9", "9", "9">>, <<"2", "0", "x", "5">>}
RoundNumberFields == {<<>>, <<"0">>, <<"1">>, <<" ", "2">>}
IsFinalFields == {<<"f", "a", "l", "s", "e">>, <<"Y", "e", "s">>}

\* spreadsheet rows: the cells under the roll number, name and email columns
CellsBlank == Row(<<>>, <<" ">>, <<>>)
CellsDashes == Row(<<"-", "-">>, <<>>, <<>>)
Cells7 == Row(<<" ", "7">>, Txt_al, <<>>)
WorkbookOne == <<CellsBlank, CellsDashes, Cells7>>
WorkbookBlank == <<CellsBlank>>
Workbooks == {WorkbookOne, WorkbookBlank}

\* the number of requests the model follows
MaxRequests == 2

\* upload_round: a request is rejected with status 400 before anything is
\* read or written, or it is served as UploadRound serves it; nUploads counts
\* the rejected requests too
UploadRequest(company_field, year_field, round_number_field, is_final_field, workbook) ==
    LET error == form_error(company_field, year_field, round_number_field)
        excel_students == extract_student_data(workbook)
        sent == [company |-> company_field, year |-> year_field,
                 roundNumber |-> round_number_field, isFinal |-> is_final_field,
                 sheet |-> workbook, failing |-> {}]
    IN  /\ nUploads < MaxRequests
        /\ IF error # ""
           THEN /\ request' = sent @@ [status |-> 400, error |-> error]
                /\ nUploads' = nUploads + 1
                /\ UNCHANGED <<students, companies, rounds, data, placements, years, upload,
                               transitions>>
           ELSE IF excel_students = <<>>
           THEN /\ request' = sent @@ [status |-> 400,
                                        error |-> "No student data found in Excel file."]
                /\ nUploads' = nUploads + 1
                /\ UNCHANGED <<students, companies, rounds, data, placements, years, upload,
                               transitions>>
           ELSE LET company == Strip(company_field)
                    year == python_int(year_field).value
                    round_number ==
                        IF Strip(round_number_field) # <<>>
                        THEN python_int(round_number_field).value
                        ELSE auto_round_number(companies, generate_company_year_id(company, year))
                IN  /\ UploadRound(company, year, round_number, parse_is_final(is_final_field),
                                   excel_students)
                    /\ request' = sent @@ [status |-> 200, error |-> ""]

NextRequests ==
    \E company_field \in CompanyFields, year_field \in YearFields,
       round_number_field \in RoundNumberFields, is_final_field \in IsFinalFields,
       workbook \in Workbooks :
        UploadRequest(company_field, year_field, round_number_field, is_final_field, workbook)
            /\ UNCHANGED <<run, normalized, suspended>>

SpecRequests == Init /\ [][NextRequests]_vars

(***************************************************************************)
(* Storage errors in the reads of an upload.  `failing' is the set of      *)
(* reads that raise when they are attempted during the request:            *)
(* "rollNumber", "name" and "email" are the three student queries,         *)
(* "company" is get_company in upload_round, "previous_round" is the fetch *)
(* of the previous round's rows.  Each of the five catches the exception,  *)
(* logs it and returns its empty answer.                                   *)
(***************************************************************************)
Reads == {"rollNumber", "name", "email", "company", "previous_round"}
Failures == {{}} \cup {{read} : read \in Reads}

\* find_student_by_roll_number, find_student_by_email, find_student_by_name,
\* the except branch included
find_student_by_or_none(student_docs, field, value, failing) ==
    IF field \in failing THEN {} ELSE find_student_by(student_docs, field, value)

\* match_student over lookups that may raise
match_student_or_none(student_docs, excel_student, failing) ==
    LET norm_roll == normalize_roll_number(excel_student.rollNumber)
        norm_name == normalize_name(excel_student.name)
        norm_email == normalize_email(excel_student.email)
        by_roll == IF ~is_empty_value(excel_student.rollNumber) /\ norm_roll # <<>>
                   THEN find_student_by_or_none(student_docs, "rollNumber", norm_roll, failing)
                   ELSE {}
        by_name == IF ~is_empty_value(excel_student.name) /\ norm_name # <<>>
                   THEN find_student_by_or_none(student_docs, "name", norm_name, failing)
                   ELSE {}
        by_email == IF ~is_empty_value(excel_student.email) /\ norm_email # <<>>
                    THEN find_student_by_or_none(student_docs, "email", norm_email, failing)
                    ELSE {}
    IN  IF by_roll # {} THEN {MatchResult(id, "roll_number", 100) : id \in by_roll}
        ELSE IF by_name # {} THEN {MatchResult(id, "name", 100) : id \in by_name}
        ELSE IF by_email # {} THEN {MatchResult(id, "email", 100) : id \in by_email}
        ELSE {MatchResult(NoStudent, "none", 0)}

\* process_excel_students over lookups that may raise
RECURSIVE process_excel_students_or_none(_, _, _)
process_excel_students_or_none(student_docs, excel_students, failing) ==
    IF excel_students = <<>> THEN {[matched_updates |-> <<>>, new_students |-> <<>>]}
    ELSE LET first == Head(excel_students)
             items == {StudentItem(student_docs, first, m) :
                          m \in match_student_or_none(student_docs, first, failing)}
         IN  {[matched_updates |-> (IF it.matched THEN <<it>> ELSE <<>>) \o rest.matched_updates,
               new_students |-> (IF it.matched THEN <<>> ELSE <<it>>) \o rest.new_students] :
                 it \in items,
                 rest \in process_excel_students_or_none(student_docs, Tail(excel_students),
                                                         failing)}

\* get_company, the except branch included: the document, or EmptyMap for None
get_company_or_none(company_docs, company_year_id, failing) ==
    IF "company" \in failing \/ company_year_id \notin DOMAIN company_docs
    THEN EmptyMap
    ELSE company_docs[company_year_id]

\* upload_round, lines 265-275, over a get_company that may raise
auto_round_number_or_none(company_docs, company_year_id, failing) ==
    LET existing_company == get_company_or_none(company_docs, company_year_id, failing)
    IN  IF existing_company # EmptyMap
        THEN Get(existing_company, "currentRound", 0) + 1
        ELSE 1

\* get_previous_round_students, the except branch included
get_previous_round_students_or_none(rows, company_year_id, round_number, failing) ==
    IF round_number > 1 /\ "previous_round" \in failing THEN {}
    ELSE get_previous_round_students(rows, company_year_id, round_number)

\* process_round_upload over a previous-round fetch that may raise
process_round_upload_or_none(db, company_name, year, round_number, is_final, excel_students, failing) ==
    LET company_year_id == generate_company_year_id(company_name, year)
        companies1 == create_or_update_company(db.companies, company_name, year,
                                               round_number, is_final)
        new_company == is_new_company(db.years, year, company_year_id)
        round_id == generate_round_id(company_year_id, round_number)
        rounds1 == add_round(db.rounds, company_year_id, round_number, is_final,
                             excel_students)
        data1 == add_round_data_batch(db.data, company_year_id, round_id, excel_students,
                                      is_final)
        eliminated == IF round_number > 1
                      THEN get_previous_round_students_or_none(data1, company_year_id,
                                                               round_number, failing)
                               \ StudentIds(excel_students)
                      ELSE {}
        students1 == mark_eliminated_students(db.students, SetToSeq(eliminated),
                                              company_year_id)
        placements1 == IF is_final
                       THEN add_placements(db.placements, company_year_id, excel_students)
                       ELSE db.placements
        placed_count == IF is_final THEN Len(excel_students) ELSE 0
        students2 == update_students(students1, excel_students, company_year_id,
                                     company_name, year, round_number, is_final)
        companies2 == update_company_statistics(companies1, company_year_id,
                                                Len(excel_students), placed_count,
                                                round_number)
        years1 == update_yearly_analytics(db.years, year, company_year_id, company_name,
                                          placed_count, new_company, is_final)
    IN  [students |-> students2, companies |-> companies2, rounds |-> rounds1,
         data |-> data1, placements |-> placements1, years |-> years1]

\* upload_round on a request whose form fields are accepted and whose
\* spreadsheet has rows, over reads that may raise
UploadUnderFailures(company_field, year_field, round_number_field, is_final_field, workbook, failing) ==
    LET excel_students == extract_student_data(workbook)
        company == Strip(company_field)
        year == python_int(year_field).value
        is_final == parse_is_final(is_final_field)
        company_year_id == generate_company_year_id(company, year)
        round_number ==
            IF Strip(round_number_field) # <<>>
            THEN python_int(round_number_field).value
            ELSE auto_round_number_or_none(companies, company_year_id, failing)
    IN  /\ nUploads < MaxRequests
        /\ form_error(company_field, year_field, round_number_field) = ""
        /\ excel_students # <<>>
        /\ \E matching \in process_excel_students_or_none(students, excel_students, failing) :
             LET all_students == matching.matched_updates \o matching.new_students
                 after == process_round_upload_or_none(Store, company, year, round_number,
                                                       is_final, all_students, failing)
             IN  /\ students' = after.students
                 /\ companies' = after.companies
                 /\ rounds' = after.rounds
                 /\ data' = after.data
                 /\ placements' = after.placements
                 /\ years' = after.years
                 /\ upload' = [company |-> company, year |-> year,
                               roundNumber |-> round_number, isFinal |-> is_final,
                               rows |-> excel_students,
                               companyYearId |-> company_year_id,
                               ids |-> [i \in DOMAIN all_students |-> all_students[i].id],
                               resolved |-> [i \in DOMAIN all_students |->
                                               [id |-> all_students[i].id,
                                                row |-> all_students[i].excel_data,
                                                match_type |-> all_students[i].match_type]],
                               totalStudents |-> Len(all_students),
                               matchedStudents |-> Len(matching.matched_updates),
                               newStudents |-> Len(matching.new_students),
                               placedStudents |-> IF is_final THEN Len(all_students) ELSE 0]
                 /\ transitions' = TransitionsAfter(company_year_id,
                                                    Get(years, year, EmptyMap),
                                                    after.years[year])
                 /\ nUploads' = nUploads + 1
                 /\ request' = [company |-> company_field, year |-> year_field,
                                roundNumber |-> round_number_field,
                                isFinal |-> is_final_field, sheet |-> workbook,
                                status |-> 200, error |-> "", failing |-> failing]

RoundNumberFieldsAccepted == {<<>>, <<"1">>, <<" ", "2">>}

NextFailures ==
    \E round_number_field \in RoundNumberFieldsAccepted, is_final_field \in IsFinalFields,
       workbook \in Sheets, failing \in Failures :
        UploadUnderFailures(Txt_Ac, Txt_2025, round_number_field, is_final_field, workbook,
                            failing)
            /\ UNCHANGED <<run, normalized, suspended>>

SpecFailures == Init /\ [][NextFailures]_vars

(***************************************************************************)
(* process_round_upload write by write.  Every document write and every    *)
(* batch commit is a step of its own, and a commit may raise.  None of the *)
(* four batched loops catches the exception, nor does                      *)
(* process_round_upload: it reaches the except clause of upload_round,     *)
(* which answers 500.                                                      *)
(***************************************************************************)
Loops == {"rows", "eliminate", "placements", "students"}

\* variant of commit_due: the batch is committed once the count is past the
\* limit
commit_due_past_limit(operation_count) == operation_count > FIRESTORE_BATCH_SIZE

\* lines 287, 376, 415 and 540: if operation_count >= FIRESTORE_BATCH_SIZE
commit_due(operation_count) == operation_count >= FIRESTORE_BATCH_SIZE

RunDrive == generate_company_year_id(run.company, run.year)
RunRound == generate_round_id(RunDrive, run.round_number)
RunStudents == run.matched_updates \o run.new_students
RunPlaced == IF run.is_final THEN Len(RunStudents) ELSE 0

\* what one iteration of the loop at run.pc queues for its item: one write,
\* or none where mark_eliminated_students skips the student
QueuedWrite(item) ==
    IF run.pc = "rows"
    THEN <<[kind |-> "set", key |-> item.id, data |-> row_data(item, run.is_final)]>>
    ELSE IF run.pc = "placements"
    THEN <<[kind |-> "set", key |-> item.id, data |-> [rowData |-> item.excel_data]]>>
    ELSE IF run.pc = "students"
    THEN <<student_write(students, item, RunDrive, run.company, run.year,
                         run.round_number, run.is_final)>>
    ELSE IF item \notin DOMAIN students THEN <<>>
    ELSE IF RunDrive \notin DOMAIN Get(students[item], "companyStatus", EmptyMap) THEN <<>>
    ELSE <<[kind |-> "update", key |-> item,
            data |-> eliminated_update_data(students[item], RunDrive)]>>

\* the store after the loop at run.pc has committed a batch
CommittedStore(batch) ==
    IF run.pc = "rows"
    THEN [Store EXCEPT !.data = Put(data, RunRound,
                                    Commit(Get(data, RunRound, EmptyMap), batch))]
    ELSE IF run.pc = "placements"
    THEN [Store EXCEPT !.placements = Put(placements, RunDrive,
                                          Commit(Get(placements, RunDrive, EmptyMap), batch))]
    ELSE [Store EXCEPT !.students = Commit(students, batch)]

SetStore(db) ==
    /\ students' = db.students
    /\ companies' = db.companies
    /\ rounds' = db.rounds
    /\ data' = db.data
    /\ placements' = db.placements
    /\ years' = db.years

\* process_round_upload, lines 702-731: what follows the loop at run.pc
StudentsOrPlacements ==
    [pc |-> IF run.is_final /\ run.pc # "placements" THEN "placements" ELSE "students",
     todo |-> RunStudents]
AfterLoop ==
    IF run.pc = "rows"
    THEN LET eliminated == IF run.round_number > 1
                           THEN eliminated_students(data, RunDrive, run.round_number,
                                                    RunStudents)
                           ELSE {}
         IN  IF eliminated # {}
             THEN [pc |-> "eliminate", todo |-> SetToSeq(eliminated)]
             ELSE StudentsOrPlacements
    ELSE IF run.pc \in {"eliminate", "placements"} THEN StudentsOrPlacements
    ELSE [pc |-> "statistics", todo |-> <<>>]

\* variant of abort_upload: the failed commit is logged and the upload goes on
\* with the company statistics
abort_upload_logged(r) ==
    [r EXCEPT !.pc = "statistics", !.outcome = "failed", !.failed_in = r.pc]

\* a commit raises inside a loop: the exception leaves the loop and
\* process_round_upload, nothing after it runs
abort_upload(r) ==
    [r EXCEPT !.pc = "idle", !.outcome = "failed", !.failed_in = r.pc]

\* upload_round up to the call of process_round_upload: the request is
\* accepted, its rows are matched
StartUpload(company_field, year_field, round_number_field, is_final_field, workbook) ==
    LET excel_students == extract_student_data(workbook)
        company == Strip(company_field)
        year == python_int(year_field).value
        round_number ==
            IF Strip(round_number_field) # <<>>
            THEN python_int(round_number_field).value
            ELSE auto_round_number(companies, generate_company_year_id(company, year))
    IN  /\ run.pc = "idle"
        /\ nUploads < MaxRequests
        /\ form_error(company_field, year_field, round_number_field) = ""
        /\ excel_students # <<>>
        /\ \E matching \in process_excel_students(students, excel_students) :
              run' = [NoRun EXCEPT !.pc = "company", !.company = company, !.year = year,
                                   !.round_number = round_number,
                                   !.is_final = parse_is_final(is_final_field),
                                   !.matched_updates = matching.matched_updates,
                                   !.new_students = matching.new_students,
                                   !.before = Store]
        /\ request' = [company |-> company_field, year |-> year_field,
                       roundNumber |-> round_number_field, isFinal |-> is_final_field,
                       sheet |-> workbook, status |-> 0, error |-> "", failing |-> {}]
        /\ UNCHANGED <<students, companies, rounds, data, placements, years, upload,
                       transitions, nUploads, normalized, suspended>>

\* process_round_upload, step 1 and the read of the year document
CreateOrUpdateCompany ==
    /\ run.pc = "company"
    /\ companies' = create_or_update_company(companies, run.company, run.year,
                                             run.round_number, run.is_final)
    /\ run' = [run EXCEPT !.pc = "round",
                          !.new_company = is_new_company(years, run.year, RunDrive)]
    /\ UNCHANGED <<students, rounds, data, placements, years, upload, transitions,
                   nUploads, request, normalized, suspended>>

\* add_round: the round document
AddRound ==
    /\ run.pc = "round"
    /\ rounds' = add_round(rounds, RunDrive, run.round_number, run.is_final, RunStudents)
    /\ run' = [run EXCEPT !.pc = "rows", !.todo = RunStudents, !.batch = <<>>]
    /\ UNCHANGED <<students, companies, data, placements, years, upload, transitions,
                   nUploads, request, normalized, suspended>>

\* one iteration of a loop that does not commit
QueueWrite ==
    /\ run.pc \in Loops
    /\ run.todo # <<>>
    /\ LET write == QueuedWrite(Head(run.todo))
           batch == run.batch \o write
       IN  /\ ~(write # <<>> /\ commit_due(Len(batch)))
           /\ run' = [run EXCEPT !.todo = Tail(run.todo), !.batch = batch,
                                 !.queued = run.queued \o
                                     [i \in DOMAIN write |-> [loop |-> run.pc,
                                                              write |-> write[i]]]]
    /\ UNCHANGED <<students, companies, rounds, data, placements, years, upload,
                   transitions, nUploads, request, normalized, suspended>>

\* one iteration of a loop that fills the batch and commits it
CommitFullBatch ==
    /\ run.pc \in Loops
    /\ run.todo # <<>>
    /\ LET write == QueuedWrite(Head(run.todo))
           batch == run.batch \o write
       IN  /\ write # <<>>
           /\ commit_due(Len(batch))
           /\ SetStore(CommittedStore(batch))
           /\ run' = [run EXCEPT !.todo = Tail(run.todo), !.batch = <<>>,
                                 !.queued = Append(run.queued, [loop |-> run.pc,
                                                                write |-> write[1]]),
                                 !.committed = Append(run.committed,
                                                      [loop |-> run.pc, writes |-> batch])]
    /\ UNCHANGED <<upload, transitions, nUploads, request, normalized, suspended>>

\* after the last iteration: the remaining operations are committed
CommitLastBatch ==
    /\ run.pc \in Loops
    /\ run.todo = <<>>
    /\ Len(run.batch) > 0
    /\ SetStore(CommittedStore(run.batch))
    /\ run' = [run EXCEPT !.batch = <<>>,
                          !.committed = Append(run.committed,
                                               [loop |-> run.pc, writes |-> run.batch])]
    /\ UNCHANGED <<upload, transitions, nUploads, request, normalized, suspended>>

\* the loop returns, process_round_upload goes on
LeaveLoop ==
    /\ run.pc \in Loops
    /\ run.todo = <<>>
    /\ Len(run.batch) = 0
    /\ run' = [run EXCEPT !.pc = AfterLoop.pc, !.todo = AfterLoop.todo,
                          !.ended = run.ended \cup {run.pc}]
    /\ UNCHANGED <<students, companies, rounds, data, placements, years, upload,
                   transitions, nUploads, request, normalized, suspended>>

\* batch.commit() raises, in an iteration or after the last one
CommitFails ==
    /\ run.pc \in Loops
    /\ \/ /\ run.todo # <<>>
          /\ QueuedWrite(Head(run.todo)) # <<>>
          /\ commit_due(Len(run.batch) + 1)
       \/ /\ run.todo = <<>>
          /\ Len(run.batch) > 0
    /\ run' = abort_upload(run)
    /\ request' = [request EXCEPT !.status = 500, !.error = "Server error"]
    /\ nUploads' = nUploads + 1
    /\ UNCHANGED <<students, companies, rounds, data, placements, years, upload,
                   transitions, normalized, suspended>>

\* process_round_upload, step 5
UpdateCompanyStatistics ==
    /\ run.pc = "statistics"
    /\ companies' = update_company_statistics(companies, RunDrive, Len(RunStudents),
                                              RunPlaced, run.round_number)
    /\ run' = [run EXCEPT !.pc = "analytics"]
    /\ UNCHANGED <<students, rounds, data, placements, years, upload, transitions,
                   nUploads, request, normalized, suspended>>

\* process_round_upload, step 6, and the response of upload_round
UpdateYearlyAnalytics ==
    /\ run.pc = "analytics"
    /\ years' = update_yearly_analytics(years, run.year, RunDrive, run.company, RunPlaced,
                                        run.new_company, run.is_final)
    /\ transitions' = TransitionsAfter(RunDrive, Get(years, run.year, EmptyMap),
                                       years'[run.year])
    /\ upload' = [company |-> run.company, year |-> run.year,
                  roundNumber |-> run.round_number, isFinal |-> run.is_final,
                  rows |-> extract_student_data(request.sheet),
                  companyYearId |-> RunDrive,
                  ids |-> [i \in DOMAIN RunStudents |-> RunStudents[i].id],
                  resolved |-> [i \in DOMAIN RunStudents |->
                                  [id |-> RunStudents[i].id,
                                   row |-> RunStudents[i].excel_data,
                                   match_type |-> RunStudents[i].match_type]],
                  totalStudents |-> Len(RunStudents),
                  matchedStudents |-> Len(run.matched_updates),
                  newStudents |-> Len(run.new_students),
                  placedStudents |-> RunPlaced]
    /\ request' = [request EXCEPT !.status = 200]
    /\ run' = [run EXCEPT !.pc = "idle", !.outcome = "done"]
    /\ nUploads' = nUploads + 1
    /\ UNCHANGED <<students, companies, rounds, data, placements, normalized, suspended>>

NextSteps ==
    \/ \E round_number_field \in RoundNumberFieldsAccepted, is_final_field \in IsFinalFields,
          workbook \in Sheets :
           StartUpload(Txt_Ac, Txt_2025, round_number_field, is_final_field, workbook)
    \/ CreateOrUpdateCompany
    \/ AddRound
    \/ QueueWrite
    \/ CommitFullBatch
    \/ CommitLastBatch
    \/ LeaveLoop
    \/ CommitFails
    \/ UpdateCompanyStatistics
    \/ UpdateYearlyAnalytics

SpecSteps == Init /\ [][NextSteps]_vars

(***************************************************************************)
(* Two requests at a time.  The server handles requests concurrently and   *)
(* the code takes no lock: a second request may run between any two store  *)
(* operations of the first.  `run' is the request that runs now,           *)
(* `suspended' the other one; Switch lets them take turns.  A document     *)
(* read and the write computed from it are separate steps: the student     *)
(* read of an iteration and the commit of its batch, the read of the year  *)
(* document and its set(merge=True).                                       *)
(***************************************************************************)
MaxSwitches == 2

\* update_yearly_analytics, lines 616-657: the write computed from the year
\* document as it was read, merged into the document as it is stored now
set_yearly_analytics(year_docs, year, year_data, company_year_id, company_name, placed_count, new_company, is_final) ==
    LET stored == Get(year_docs, year, EmptyMap)
        company_wise == Get(year_data, "companyWise", EmptyMap)
        previous_status == IF company_year_id \in DOMAIN company_wise
                           THEN company_wise[company_year_id].status ELSE "None"
        increments == MergeFields([totalPlaced |-> placed_count],
                                  company_counter_increments(previous_status,
                                                             new_company, is_final))
        written == company_wise_after(company_wise, company_year_id, company_name,
                                      placed_count, is_final)
    IN  Put(year_docs, year,
            MergeFields(stored,
                MergeFields([companyWise |->
                                MergeFields(Get(stored, "companyWise", EmptyMap), written)],
                            [f \in DOMAIN increments |->
                                Get(stored, f, 0) + increments[f]])))

\* update_yearly_analytics, lines 598-613: year_ref.get()
ReadYearDocument ==
    /\ run.pc = "analytics"
    /\ run' = [run EXCEPT !.pc = "analytics_write",
                          !.year_data = Get(years, run.year, EmptyMap)]
    /\ UNCHANGED <<students, companies, rounds, data, placements, years, upload,
                   transitions, nUploads, request, normalized, suspended>>

\* update_yearly_analytics, line 657: year_ref.set(update_data, merge=True),
\* and the response of upload_round
WriteYearlyAnalytics ==
    /\ run.pc = "analytics_write"
    /\ years' = set_yearly_analytics(years, run.year, run.year_data, RunDrive, run.company,
                                     RunPlaced, run.new_company, run.is_final)
    /\ transitions' = TransitionsAfter(RunDrive, Get(years, run.year, EmptyMap),
                                       years'[run.year])
    /\ upload' = [company |-> run.company, year |-> run.year,
                  roundNumber |-> run.round_number, isFinal |-> run.is_final,
                  rows |-> extract_student_data(request.sheet),
                  companyYearId |-> RunDrive,
                  ids |-> [i \in DOMAIN RunStudents |-> RunStudents[i].id],
                  resolved |-> [i \in DOMAIN RunStudents |->
                                  [id |-> RunStudents[i].id,
                                   row |-> RunStudents[i].excel_data,
                                   match_type |-> RunStudents[i].match_type]],
                  totalStudents |-> Len(RunStudents),
                  matchedStudents |-> Len(run.matched_updates),
                  newStudents |-> Len(run.new_students),
                  placedStudents |-> RunPlaced]
    /\ request' = [request EXCEPT !.status = 200]
    /\ run' = [run EXCEPT !.pc = "idle", !.outcome = "done"]
    /\ nUploads' = nUploads + 1
    /\ UNCHANGED <<students, companies, rounds, data, placements, normalized, suspended>>

\* the running request is held up and the other one goes on, or a new one
\* may come in
Switch ==
    /\ suspended.switches < MaxSwitches
    /\ run.pc # "idle" \/ suspended.run.pc # "idle"
    /\ run' = suspended.run
    /\ request' = suspended.request
    /\ suspended' = [run |-> run, request |-> request,
                     switches |-> suspended.switches + 1]
    /\ UNCHANGED <<students, companies, rounds, data, placements, years, upload,
                   transitions, nUploads, normalized>>

\* the sheets of the concurrent requests: one row of one student, two rows
\* of another
ShortSheets == {<<RowX>>, <<Row2, Row3>>}

\* a first request, served alone before the two concurrent ones come in
UploadAlone(company, year, round_number, is_final, sheet) ==
    /\ nUploads = 0
    /\ run = NoRun
    /\ suspended.run = NoRun
    /\ UploadRound(company, year, round_number, is_final, sheet)
    /\ UNCHANGED <<request, run, normalized, suspended>>

\* one of the two concurrent requests comes in
StartConcurrent(company_field, year_field, round_number_field, is_final_field, workbook) ==
    /\ run = NoRun
    /\ StartUpload(company_field, year_field, round_number_field, is_final_field, workbook)

NextConcurrent ==
    \/ \E company \in Companies, is_final \in BOOLEAN, sheet \in ShortSheets :
           UploadAlone(company, 2025, 1, is_final, sheet)
    \/ \E company_field \in Companies, is_final_field \in IsFinalFields,
          workbook \in ShortSheets :
           StartConcurrent(company_field, Txt_2025, <<"1">>, is_final_field, workbook)
    \/ CreateOrUpdateCompany
    \/ AddRound
    \/ QueueWrite
    \/ CommitFullBatch
    \/ CommitLastBatch
    \/ LeaveLoop
    \/ UpdateCompanyStatistics
    \/ ReadYearDocument
    \/ WriteYearlyAnalytics
    \/ Switch

SpecConcurrent == Init /\ [][NextConcurrent]_vars

(***************************************************************************)
(* normalize_roll_number on its own: applied to a text, then to its own    *)
(* result.                                                                 *)
(***************************************************************************)
MaxLen == 3
RollNumberChars == {"a", "B", "7", "-", " "}
RollNumberTexts == UNION {[1..n -> RollNumberChars] : n \in 0..MaxLen}

InitNormalize == InitStore /\ normalized \in {NotNormalized(text) : text \in RollNumberTexts}

NormalizeRollNumber ==
    /\ normalized.calls = 0
    /\ normalized' = [normalized EXCEPT !.once = normalize_roll_number(normalized.input),
                                         !.calls = 1]
    /\ UNCHANGED <<students, companies, rounds, data, placements, years, upload,
                   transitions, nUploads, request, run, suspended>>

NormalizeAgain ==
    /\ normalized.calls = 1
    /\ normalized' = [normalized EXCEPT !.twice = normalize_roll_number(normalized.once),
                                         !.calls = 2]
    /\ UNCHANGED <<students, companies, rounds, data, placements, years, upload,
                   transitions, nUploads, request, run, suspended>>

NextNormalize == NormalizeRollNumber \/ NormalizeAgain

SpecNormalize == InitNormalize /\ [][NextNormalize]_vars

(***************************************************************************)
(* Properties.                                                             *)
(***************************************************************************)
\* currentStatus of a student document, as update_students reads it
CurrentStatus(student) == Get(student, "currentStatus", "not_placed")

\* the status a student records for a drive, "None" where it records none
DriveStatus(student, company_year_id) ==
    LET company_status == Get(student, "companyStatus", EmptyMap)
    IN  IF company_year_id \in DOMAIN company_status
        THEN company_status[company_year_id].status ELSE "None"

\* the ids the last upload resolved its rows to
UploadIds == {upload.ids[i] : i \in DOMAIN upload.ids}

\* C1: a student whose currentStatus is 'placed' is still there and still
\* 'placed' after any upload: no upload sets it back to 'not_placed'.
C1_PlacedStaysPlaced ==
    [][\A id \in DOMAIN students :
          CurrentStatus(students[id]) = "placed"
             => /\ id \in DOMAIN students'
                /\ CurrentStatus(students'[id]) = "placed"]_vars

\* C1 witness: a placed student was among the rows of a non-final upload (which
\* places nobody, so the student was placed before it) and is placed after it.
C1_Witness ==
    /\ ~upload.isFinal
    /\ \E id \in UploadIds : CurrentStatus(students[id]) = "placed"

\* C2: an upload never changes a non-empty rollNumber, name or email of an
\* existing student; a field that was empty or absent and is set afterwards
\* holds the normalized value of that field in one of the upload's rows.
C2_IdentifiersBackfilledOnly ==
    [][\A id \in DOMAIN students : \A f \in TextFields :
          IF Get(students[id], f, <<>>) # <<>>
          THEN Get(students'[id], f, <<>>) = students[id][f]
          ELSE \/ Get(students'[id], f, <<>>) = <<>>
               \/ \E i \in DOMAIN upload'.resolved :
                     /\ upload'.resolved[i].id = id
                     /\ upload'.resolved[i].row[f] # <<>>
                     /\ students'[id][f] = normalize_field(f, upload'.resolved[i].row[f])]_vars

\* C2 witness: the last upload matched a row by roll number to a student that
\* keeps a name other than the row's, and some student stores a roll number
\* that the row it was created from did not carry (its id is not derived from
\* it): a backfill.
C2_Witness ==
    /\ \E i \in DOMAIN upload.resolved :
          LET r == upload.resolved[i]
          IN  /\ r.match_type = "roll_number"
              /\ r.row.name # <<>>
              /\ Get(students[r.id], "name", <<>>) # <<>>
              /\ students[r.id].name # normalize_name(r.row.name)
    /\ \E id \in DOMAIN students :
          /\ Get(students[id], "rollNumber", <<>>) # <<>>
          /\ id # generate_student_id(students[id].rollNumber, <<>>, <<>>)

\* the students that store a value in an identifier field
StoredAs(field, value) ==
    {id \in DOMAIN students : Get(students[id], field, <<>>) = value}

\* C3, as the code has it: when students store the row's non-empty normalized
\* roll number, match_student returns one of them with ('roll_number', 100),
\* whatever the name or the email would match; likewise one that stores the
\* name when no roll number hits, one that stores the email when neither does;
\* ('none', 0) and no student when nothing hits.
C3_MatchPriority ==
    \A row \in Rows : \A m \in match_student(students, row) :
        LET roll_number == normalize_roll_number(row.rollNumber)
            name == normalize_name(row.name)
            email == normalize_email(row.email)
            roll_hits == IF roll_number # <<>> THEN StoredAs("rollNumber", roll_number) ELSE {}
            name_hits == IF name # <<>> THEN StoredAs("name", name) ELSE {}
            email_hits == IF email # <<>> THEN StoredAs("email", email) ELSE {}
        IN  IF roll_hits # {}
            THEN m.student \in roll_hits /\ m.match_type = "roll_number" /\ m.confidence = 100
            ELSE IF name_hits # {}
            THEN m.student \in name_hits /\ m.match_type = "name" /\ m.confidence = 100
            ELSE IF email_hits # {}
            THEN m.student \in email_hits /\ m.match_type = "email" /\ m.confidence = 100
            ELSE m = MatchResult(NoStudent, "none", 0)

\* C3 witness: the last upload resolved a row by roll number to one student
\* while another student, not touched by the upload, stores the row's name.
C3_Witness ==
    \E i \in DOMAIN upload.resolved :
        LET r == upload.resolved[i]
        IN  /\ r.match_type = "roll_number"
            /\ r.row.name # <<>>
            /\ \E other \in DOMAIN students \ UploadIds :
                  Get(students[other], "name", <<>>) = normalize_name(r.row.name)

\* C3 as stated: whenever student A stores the row's roll number and another
\* student B stores the row's name, the result is exactly (A, 'roll_number', 100).
C3_AsStated ==
    \A row \in Rows : \A A \in DOMAIN students : \A B \in DOMAIN students \ {A} :
        LET roll_number == normalize_roll_number(row.rollNumber)
            name == normalize_name(row.name)
        IN  (/\ roll_number # <<>>
             /\ name # <<>>
             /\ Get(students[A], "rollNumber", <<>>) = roll_number
             /\ Get(students[B], "name", <<>>) = name)
              => match_student(students, row) = {MatchResult(A, "roll_number", 100)}

\* C4: an upload of round N > 1 of a drive turns every existing student that
\* has a row in round N-1 and none in the upload to 'not_selected' with
\* finalSelection false and roundReached as it was; a student with a row in
\* the upload is not 'not_selected' afterwards.
C4_EliminationCorrect ==
    [][upload'.roundNumber > 1 =>
          LET D == upload'.companyYearId
              present == {upload'.ids[i] : i \in DOMAIN upload'.ids}
              previous == get_previous_round_students(data, D, upload'.roundNumber)
          IN  /\ \A id \in (previous \ present) \cap DOMAIN students :
                    /\ D \in DOMAIN Get(students[id], "companyStatus", EmptyMap)
                    /\ students'[id].companyStatus[D].status = "not_selected"
                    /\ students'[id].companyStatus[D].finalSelection = "False"
                    /\ students'[id].companyStatus[D].roundReached =
                           students[id].companyStatus[D].roundReached
              /\ \A id \in present :
                    DriveStatus(students'[id], D) \in {"in_process", "selected"}]_vars

\* C4 witness: after an upload of round 2 of a drive, one student of round 1
\* is absent from it and 'not_selected', another is present and going on.
C4_Witness ==
    /\ upload.roundNumber > 1
    /\ LET D == upload.companyYearId
           previous == get_previous_round_students(data, D, upload.roundNumber)
       IN  /\ \E id \in (previous \ UploadIds) \cap DOMAIN students :
                 DriveStatus(students[id], D) = "not_selected"
           /\ \E id \in previous \cap UploadIds :
                 DriveStatus(students[id], D) \in {"in_process", "selected"}

\* C5 as stated: a student 'not_selected' for a drive stays 'not_selected' for
\* it through every upload of a later round of the drive than the one the
\* student reached.
C5_NotSelectedIsFinal ==
    [][\A id \in DOMAIN students :
          LET D == upload'.companyYearId
              company_status == Get(students[id], "companyStatus", EmptyMap)
          IN  (/\ D \in DOMAIN company_status
               /\ company_status[D].status = "not_selected"
               /\ upload'.roundNumber > company_status[D].roundReached)
                 => DriveStatus(students'[id], D) = "not_selected"]_vars

\* C6: in every year document runningCompanies + completedCompanies =
\* totalCompanies.
C6_CountersAddUp ==
    \A year \in DOMAIN years :
        Counter(years[year], "runningCompanies") + Counter(years[year], "completedCompanies")
            = Counter(years[year], "totalCompanies")

\* C6 witness: a year with a running and a completed company, one of them
\* completed by a final upload that was not its first upload.
C6_Witness ==
    \E year \in DOMAIN years :
        /\ Counter(years[year], "runningCompanies") = 1
        /\ Counter(years[year], "completedCompanies") = 1
        /\ \E D \in DOMAIN transitions : transitions[D].completedIncremented = 1
                                         /\ transitions[D].runningDecremented = 1

\* C7: over all its uploads a drive takes runningCompanies down at most once
\* and completedCompanies up at most once, and runningCompanies is never
\* negative.
C7_TransitionOnce ==
    /\ \A D \in DOMAIN transitions :
          /\ transitions[D].runningDecremented <= 1
          /\ transitions[D].completedIncremented <= 1
    /\ \A year \in DOMAIN years : Counter(years[year], "runningCompanies") >= 0

\* C7 witness: a drive that went from running to completed and has two final
\* rounds on record.
C7_Witness ==
    \E D \in DOMAIN transitions :
        /\ transitions[D].runningDecremented = 1
        /\ generate_round_id(D, 1) \in DOMAIN rounds
        /\ generate_round_id(D, 2) \in DOMAIN rounds
        /\ rounds[generate_round_id(D, 1)].isFinalRound
        /\ rounds[generate_round_id(D, 2)].isFinalRound

\* C8: a company whose status is 'completed' is 'completed' after any upload.
C8_CompletedStaysCompleted ==
    [][\A D \in DOMAIN companies :
          companies[D].status = "completed"
             => D \in DOMAIN companies' /\ companies'[D].status = "completed"]_vars

\* C8 witness: the last upload was a non-final one for a company that had
\* had a final round, and the company is 'completed'.
C8_Witness ==
    /\ ~upload.isFinal
    /\ upload.companyYearId \in DOMAIN companies
    /\ companies[upload.companyYearId].status = "completed"
    /\ companies[upload.companyYearId].finalRound # 0

\* C9: an upload with a round number other than 1 leaves totalApplied of every
\* company that existed before it as it was.
C9_LaterRoundKeepsTotalApplied ==
    [][upload'.roundNumber # 1 =>
          \A D \in DOMAIN companies :
             companies'[D].totalApplied = companies[D].totalApplied]_vars

\* C9 witness: after an upload of a later round, the company's totalApplied is
\* the row count of its round 1 and not the row count of the upload.
C9_Witness ==
    /\ upload.roundNumber # 1
    /\ upload.companyYearId \in DOMAIN companies
    /\ generate_round_id(upload.companyYearId, 1) \in DOMAIN rounds
    /\ companies[upload.companyYearId].totalApplied # 0
    /\ companies[upload.companyYearId].totalApplied # upload.totalStudents

\* C10 as stated: once a drive has a round 1 on record, no upload changes its
\* totalApplied.
C10_TotalAppliedImmutable ==
    [][\A D \in DOMAIN companies :
          generate_round_id(D, 1) \in DOMAIN rounds
             => companies'[D].totalApplied = companies[D].totalApplied]_vars

\* the rows of a sheet that match_student resolves to no student
Unmatched(sheet) ==
    {i \in DOMAIN sheet : match_student(students, sheet[i]) = {MatchResult(NoStudent, "none", 0)}}

\* C11: the first upload of a new drive, round 1 and not final, with n rows
\* none of which matches a student, answers newStudents = n and
\* matchedStudents = 0, creates the company 'running' with currentRound 1 and
\* totalApplied n, and takes totalCompanies and runningCompanies of the year
\* up by one each, completedCompanies staying.
C11_FirstUploadOfNewDrive ==
    [][(/\ upload'.roundNumber = 1
        /\ ~upload'.isFinal
        /\ upload'.companyYearId \notin DOMAIN companies
        /\ Unmatched(upload'.rows) = DOMAIN upload'.rows)
          => LET D == upload'.companyYearId
                 n == Len(upload'.rows)
                 before == Get(years, upload'.year, EmptyMap)
                 after == years'[upload'.year]
             IN  /\ upload'.newStudents = n
                 /\ upload'.matchedStudents = 0
                 /\ companies'[D].status = "running"
                 /\ companies'[D].currentRound = 1
                 /\ companies'[D].totalApplied = n
                 /\ Counter(after, "totalCompanies") = Counter(before, "totalCompanies") + 1
                 /\ Counter(after, "runningCompanies") = Counter(before, "runningCompanies") + 1
                 /\ Counter(after, "completedCompanies") = Counter(before, "completedCompanies")]_vars

\* C11 witness: a year that already had a company got a second one by a
\* non-final round 1 of three rows, all of them new students.
C11_Witness ==
    /\ upload.roundNumber = 1
    /\ ~upload.isFinal
    /\ upload.matchedStudents = 0
    /\ upload.newStudents = 3
    /\ DOMAIN rounds \cap {generate_round_id(upload.companyYearId, r) : r \in 1..MaxRound}
          = {generate_round_id(upload.companyYearId, 1)}
    /\ companies[upload.companyYearId].totalApplied = 3
    /\ companies[upload.companyYearId].status = "running"
    /\ Counter(years[upload.year], "totalCompanies") = 2

\* C12: a final upload of k rows for an existing drive whose status is
\* 'running' answers placedStudents = k, completes the company, adds k to the
\* company's and to the year's totalPlaced and moves the drive from
\* runningCompanies to completedCompanies; a non-final upload leaves the
\* totalPlaced of every company and of the year as they were.
C12_FinalUploadOfRunningDrive ==
    [][LET D == upload'.companyYearId
           k == Len(upload'.rows)
           before == Get(years, upload'.year, EmptyMap)
           after == years'[upload'.year]
       IN  /\ (/\ upload'.isFinal
               /\ D \in DOMAIN companies
               /\ companies[D].status = "running")
                 => /\ upload'.placedStudents = k
                    /\ companies'[D].status = "completed"
                    /\ companies'[D].totalPlaced = companies[D].totalPlaced + k
                    /\ Counter(after, "totalPlaced") = Counter(before, "totalPlaced") + k
                    /\ Counter(after, "runningCompanies") = Counter(before, "runningCompanies") - 1
                    /\ Counter(after, "completedCompanies") = Counter(before, "completedCompanies") + 1
           /\ ~upload'.isFinal
                 => /\ \A C \in DOMAIN companies : companies'[C].totalPlaced = companies[C].totalPlaced
                    /\ Counter(after, "totalPlaced") = Counter(before, "totalPlaced")]_vars

\* C12 witness: a drive with a non-final round on record was completed by a
\* final upload of two rows, in a year that had placements before it.
C12_Witness ==
    /\ upload.isFinal
    /\ upload.placedStudents = 2
    /\ transitions[upload.companyYearId].runningDecremented = 1
    /\ companies[upload.companyYearId].totalPlaced = 2
    /\ Counter(years[upload.year], "totalPlaced") > 2

\* what a request asks for, read off its fields
YearAsked(req) == python_int(req.year)
RoundAsked(req) == python_int(req.roundNumber)
BlankText(text) == \A i \in DOMAIN text : text[i] \in Whitespace
YieldsNoRows(workbook) ==
    \A i \in DOMAIN workbook : \A field \in TextFields : is_empty_value(workbook[i][field])

\* C13: a request with a missing company, a missing year, a year that is not
\* an integer in 2000..2100, a round number below 1 or a spreadsheet that
\* yields no rows is answered with an error, and no document of the
\* companies, rounds, rows, placements, students or years collections is
\* created or modified by it.
C13_Invalid(req) ==
    \/ BlankText(req.company)
    \/ BlankText(req.year)
    \/ ~(YearAsked(req).ok /\ YearAsked(req).value \in 2000..2100)
    \/ (~BlankText(req.roundNumber) /\ RoundAsked(req).ok /\ RoundAsked(req).value < 1)
    \/ YieldsNoRows(req.sheet)
C13_InvalidRequestRejected ==
    [][C13_Invalid(request') =>
          /\ request'.status = 400
          /\ request'.error # ""
          /\ UNCHANGED <<companies, rounds, data, placements, students, years>>]_vars
\* a request rejected for its round number while the store holds documents
C13_Witness ==
    /\ request.status = 400
    /\ request.error = "Round number must be >= 1."
    /\ C13_Invalid(request)
    /\ students # EmptyMap
    /\ companies # EmptyMap

\* the reads of a request that raise when it is served: the roll number query
\* runs for every row with a roll number, the name query for a row with a name
\* and no roll number, the email query for a row with an email only, the
\* previous-round fetch for every round after the first
RaisedReads(req, round_number) ==
    LET rows == extract_student_data(req.sheet)
        has(i, field) == ~is_empty_value(rows[i][field])
    IN  {read \in req.failing :
            \/ read = "rollNumber" /\ \E i \in DOMAIN rows :
                   normalize_roll_number(rows[i].rollNumber) # <<>>
            \/ read = "name" /\ \E i \in DOMAIN rows :
                   ~has(i, "rollNumber") /\ normalize_name(rows[i].name) # <<>>
            \/ read = "email" /\ \E i \in DOMAIN rows :
                   /\ ~has(i, "rollNumber") /\ ~has(i, "name")
                   /\ normalize_email(rows[i].email) # <<>>
            \/ read = "previous_round" /\ round_number > 1}

\* C14 as stated: an upload during which a student query (by roll number,
\* name or email) or the fetch of the previous round's rows raises a storage
\* error is answered as a failed operation; it is not served as if the read
\* had found nothing.
C14_ReadFailurePropagated ==
    [][RaisedReads(request', upload'.roundNumber) # {} => request'.status = 500]_vars

\* the drive a request addresses
DriveAsked(req) == generate_company_year_id(Strip(req.company), YearAsked(req).value)

\* C18 as stated: an upload whose request carries no round number is served
\* under the stored currentRound + 1 when the company document exists, and
\* under round 1 only when no company document exists for that company and
\* year.
C18_AutoRoundNumber ==
    [][(request'.status = 200 /\ BlankText(request'.roundNumber)) =>
          upload'.roundNumber =
              IF DriveAsked(request') \in DOMAIN companies
              THEN companies[DriveAsked(request')].currentRound + 1
              ELSE 1]_vars

\* C16 as stated: a spreadsheet row whose roll number, name and email are all
\* empty is not rejected or dropped; a request with accepted form fields is
\* served, and every row of its spreadsheet, the empty-identifier rows
\* included, is counted in totalStudents and as a matched or a new student.
C16_BlankRowCounted ==
    [][form_error(request'.company, request'.year, request'.roundNumber) = "" =>
          /\ request'.status = 200
          /\ upload'.totalStudents = Len(request'.sheet)
          /\ upload'.matchedStudents + upload'.newStudents = Len(request'.sheet)]_vars

\* C20 as stated: a student document has, when an upload creates it, at least
\* one non-empty identifier among rollNumber, name and email.
C20_CreatedWithIdentifier ==
    [][\A id \in DOMAIN students' \ DOMAIN students :
          \E field \in TextFields : Get(students'[id], field, <<>>) # <<>>]_vars

\* C19: normalize_roll_number is idempotent: applied to its own result it
\* returns that result.
C19_NormalizeIdempotent ==
    normalized.calls = 2 => normalized.twice = normalized.once
\* a text that normalize_roll_number changes, to a non-empty result, and that
\* has been normalized twice
C19_Witness ==
    /\ normalized.calls = 2
    /\ normalized.once # normalized.input
    /\ normalized.once # <<>>
    /\ Len(normalized.once) < Len(normalized.input)
    /\ \E i \in DOMAIN normalized.input : IsLower(normalized.input[i])

\* the writes of the batches a loop of the upload has committed, in order
RECURSIVE WritesOf(_, _)
WritesOf(batches, loop) ==
    IF batches = <<>> THEN <<>>
    ELSE (IF Head(batches).loop = loop THEN Head(batches).writes ELSE <<>>)
             \o WritesOf(Tail(batches), loop)

\* the writes a loop of the upload has queued, in order
QueuedBy(loop) ==
    LET mine == SelectSeq(run.queued, LAMBDA q : q.loop = loop)
    IN  [i \in DOMAIN mine |-> mine[i].write]

\* student documents after the batches on the students collection are applied
RECURSIVE ApplyStudentBatches(_, _)
ApplyStudentBatches(docs, batches) ==
    IF batches = <<>> THEN docs
    ELSE ApplyStudentBatches(
             IF Head(batches).loop \in {"eliminate", "students"}
             THEN Commit(docs, Head(batches).writes) ELSE docs,
             Tail(batches))

\* C15: when a batch commit fails while the student writes of an upload are
\* applied, the upload ends there with a failure: the batches committed
\* before it remain applied and are all that is applied to the students, and
\* the company statistics and the yearly analytics of the upload are not
\* written.
C15_AbortOnCommitFailure ==
    (run.outcome = "failed" /\ run.failed_in = "students") =>
        /\ run.pc = "idle"
        /\ request.status = 500
        /\ students = ApplyStudentBatches(run.before.students, run.committed)
        /\ Len(WritesOf(run.committed, "students")) < Len(RunStudents)
        /\ companies = create_or_update_company(run.before.companies, run.company,
                                                run.year, run.round_number, run.is_final)
        /\ years = run.before.years
\* the second student batch of an upload failed after the first was
\* committed, on a drive whose statistics an earlier upload had written
C15_Witness ==
    /\ run.outcome = "failed"
    /\ run.failed_in = "students"
    /\ WritesOf(run.committed, "students") # <<>>
    /\ run.batch # <<>>
    /\ students # run.before.students
    /\ RunDrive \in DOMAIN run.before.companies

\* C17: in the four batched loops of an upload (round rows, elimination
\* marks, placements, student writes) no committed batch has more than
\* FIRESTORE_BATCH_SIZE operations, and once a loop has ended without error
\* the writes it committed are exactly the writes it queued, each once, with
\* nothing left in an uncommitted batch.
C17_BatchesBoundedAndComplete ==
    /\ \A i \in DOMAIN run.committed :
          /\ run.committed[i].loop \in Loops
          /\ Len(run.committed[i].writes) >= 1
          /\ Len(run.committed[i].writes) <= FIRESTORE_BATCH_SIZE
    /\ \A loop \in run.ended : WritesOf(run.committed, loop) = QueuedBy(loop)
    /\ (run.pc \notin Loops /\ run.outcome # "failed") => run.batch = <<>>
\* an upload served to the end through all four loops, one of them with a
\* full batch followed by a smaller last batch
C17_Witness ==
    /\ run.outcome = "done"
    /\ run.ended = Loops
    /\ \A loop \in Loops : QueuedBy(loop) # <<>>
    /\ \E i, j \in DOMAIN run.committed :
          /\ i < j
          /\ run.committed[i].loop = run.committed[j].loop
          /\ Len(run.committed[i].writes) = FIRESTORE_BATCH_SIZE
          /\ Len(run.committed[j].writes) < FIRESTORE_BATCH_SIZE

\* C21 as stated: a round document, once created for a drive and round number,
\* is not modified by any later upload, one with the same round number
\* included, and its row collection holds only the rows of the upload that
\* created the round.
C21_RoundImmutable ==
    [][\A R \in DOMAIN rounds :
          /\ R \in DOMAIN rounds'
          /\ rounds'[R] = rounds[R]
          /\ Get(data', R, EmptyMap) = Get(data, R, EmptyMap)]_vars

\* C22 as stated: a placement record of an entity for a drive is written at
\* most once; placement records are created by final-round uploads only, and
\* a later upload leaves every existing placement record as it is.
C22_PlacementWrittenOnce ==
    [][/\ \A D \in DOMAIN placements :
            \A id \in DOMAIN placements[D] :
               /\ D \in DOMAIN placements'
               /\ id \in DOMAIN placements'[D]
               /\ placements'[D][id] = placements[D][id]
       /\ placements' # placements => upload'.isFinal]_vars

\* C23 as stated: within one upload the aggregate updates run last; no field
\* of the company document and no field of the year document is written
\* before the round-row, elimination, placement and student writes of that
\* upload have all been committed.
C23_AggregatesLast ==
    [][(companies' # companies \/ years' # years) =>
          run.pc \in {"statistics", "analytics"}]_vars

\* the drive of a request's run, and the students of its sheet
DriveOf(r) == generate_company_year_id(r.company, r.year)
IdsOf(r) == StudentIds(r.matched_updates \o r.new_students)
OffersIn(db, id) == IF id \in DOMAIN db.students THEN Get(db.students[id], "totalOffers", 0) ELSE 0
InList(list, x) == \E i \in DOMAIN list : list[i] = x

\* of two numbers, the smaller
Smaller(a, b) == IF a <= b THEN a ELSE b

\* C24 as stated: once two final uploads for different drives that both hold
\* a student have both finished, however their steps interleaved, the student
\* is placed, has two offers more than before either upload began, has both
\* company names in selectedCompanies and a companyStatus entry for each drive
C24_NoLostStudentUpdate ==
    LET r1 == run
        r2 == suspended.run
    IN  (/\ r1.outcome = "done" /\ r2.outcome = "done"
         /\ r1.is_final /\ r2.is_final
         /\ DriveOf(r1) # DriveOf(r2))
        => \A id \in IdsOf(r1) \cap IdsOf(r2) :
              /\ id \in DOMAIN students
              /\ CurrentStatus(students[id]) = "placed"
              /\ Get(students[id], "totalOffers", 0)
                   = Smaller(OffersIn(r1.before, id), OffersIn(r2.before, id)) + 2
              /\ InList(Get(students[id], "selectedCompanies", <<>>), r1.company)
              /\ InList(Get(students[id], "selectedCompanies", <<>>), r2.company)
              /\ {DriveOf(r1), DriveOf(r2)} \subseteq DOMAIN Get(students[id], "companyStatus", EmptyMap)

\* the stores that the upload of run r, asked by req, leaves when it is served
\* alone on the store db
ServedAlone(db, r, req) ==
    {process_round_upload(db, r.company, r.year, r.round_number, r.is_final,
                          matching.matched_updates \o matching.new_students) :
        matching \in process_excel_students(db.students, extract_student_data(req.sheet))}

\* C25 as stated: once two uploads for different drives of one year that share
\* no student have both finished, however their reads and writes interleaved,
\* every document is as one of the two sequential orders of the uploads
\* leaves it, starting from the store one of them found
C25_AsSomeSequentialOrder ==
    LET r1 == run
        r2 == suspended.run
    IN  (/\ r1.outcome = "done" /\ r2.outcome = "done"
         /\ r1.year = r2.year
         /\ DriveOf(r1) # DriveOf(r2)
         /\ IdsOf(r1) \cap IdsOf(r2) = {})
        => \E base \in {r1.before, r2.before} :
              \/ \E first \in ServedAlone(base, r1, request) :
                    Store \in ServedAlone(first, r2, suspended.request)
              \/ \E first \in ServedAlone(base, r2, suspended.request) :
                    Store \in ServedAlone(first, r1, request)

\* C26 as stated: every round document's studentCount is the number of row
\* records stored in that round's row collection
C26_StudentCountIsRows ==
    \A R \in DOMAIN rounds :
        rounds[R].studentCount = Cardinality(DOMAIN Get(data, R, EmptyMap))

\* the companyWise entry of a drive in the year document of its year
CompanyWiseEntry(D) ==
    Get(Get(Get(years, companies[D].year, EmptyMap), "companyWise", EmptyMap), D, EmptyMap)

\* C27 as stated: a company's totalPlaced is the number of placement records
\* stored for its drive, and is the 'placed' value of the drive's companyWise
\* entry in the year document
C27_TotalPlacedIsPlacements ==
    \A D \in DOMAIN companies :
        /\ Get(companies[D], "totalPlaced", 0) = Cardinality(DOMAIN Get(placements, D, EmptyMap))
        /\ Get(companies[D], "totalPlaced", 0) = Get(CompanyWiseEntry(D), "placed", 0)

\* C28 as stated: the newStudents of an upload's response is the number of
\* student documents that did not exist before the upload and exist after it
C28_NewStudentsAreCreated ==
    [][upload'.newStudents = Cardinality(DOMAIN students' \ DOMAIN students)]_vars

\* C29 as stated: every student's totalOffers is the number of entries of its
\* selectedCompanies, and its currentStatus is 'placed' exactly when that list
\* is not empty
C29_OffersAreSelections ==
    \A id \in DOMAIN students :
        /\ Get(students[id], "totalOffers", 0) = Len(Get(students[id], "selectedCompanies", <<>>))
        /\ CurrentStatus(students[id]) = "placed"
             <=> Get(students[id], "selectedCompanies", <<>>) # <<>>

\* the drives with an entry of the given status in a companyWise map
EntriesWithStatus(company_wise, status) ==
    {D \in DOMAIN company_wise : company_wise[D].status = status}

\* C30: in every year document totalCompanies is the number of companyWise
\* entries, runningCompanies the number of entries with status 'running',
\* completedCompanies the number with status 'completed', and the status of
\* each entry is the status of the company document of its drive
C30_YearCountersMatchEntries ==
    \A year \in DOMAIN years :
        LET company_wise == Get(years[year], "companyWise", EmptyMap)
        IN  /\ Counter(years[year], "totalCompanies") = Cardinality(DOMAIN company_wise)
            /\ Counter(years[year], "runningCompanies")
                 = Cardinality(EntriesWithStatus(company_wise, "running"))
            /\ Counter(years[year], "completedCompanies")
                 = Cardinality(EntriesWithStatus(company_wise, "completed"))
            /\ \A D \in DOMAIN company_wise :
                  /\ D \in DOMAIN companies
                  /\ company_wise[D].status = companies[D].status

\* C30 witness: a year with a running and a completed company, the completed
\* one having had a non-final upload after its final round
C30_Witness ==
    \E year \in DOMAIN years :
        LET company_wise == Get(years[year], "companyWise", EmptyMap)
        IN  /\ EntriesWithStatus(company_wise, "running") # {}
            /\ EntriesWithStatus(company_wise, "completed") # {}
            /\ ~upload.isFinal
            /\ upload.companyYearId \in EntriesWithStatus(company_wise, "completed")

====
